---- MODULE Spec2Model ----
(***************************************************************************)
(* LB-Manager: the virtualized table engine.                               *)
(*   VirtualDataModel   src/models/virtual_data_model.py                   *)
(*   TableController    src/controllers/table_controller.py                *)
(*   TableVisualManager src/controllers/table_visual_manager.py            *)
(*   MainWindow         src/views/main_window.py                           *)
(*                                                                         *)
(* Text values (websign, title, search text) are sequences of one-letter   *)
(* strings, so that lower-casing, substring search and integer parsing are *)
(* computed and not assumed.  Of the eleven columns the model keeps        *)
(* websign, author, title, tag, read_status, progress and file_path;       *)
(* group, show, magazine and origin are plain 'str' columns the code       *)
(* treats exactly like title.  The field rid of a stored row is a history         *)
(* variable: the identity of the record, which the code does not store.    *)
(***************************************************************************)
EXTENDS Integers, Sequences, FiniteSets, TLC

\* ---------------------------------------------------------------- bounds
MaxRows == 2
MaxTableRows == 3
\* clear_table is not taken once an entry of the duplicate index is this long
MaxTracked == 3
\* WidgetPool(main_window, max_size=50), scaled down
max_size == 2
\* the rows of the list load_from_list receives
MaxListLen == 3
\* pending cover-load timers of one card that are told apart
MaxLoadTimers == 1
\* the lines of one imported file
MaxImportLines == 3
\* WidgetPool._precreate_widgets(10)
precreate_count == 10

\* ------------------------------------------------------------ text values
T100 == <<"1", "0", "0">>
T101 == <<"1", "0", "1">>
TLove == <<"L", "o">>
TX == <<"x">>
TEmpty == <<>>

Range(s) == {s[i] : i \in 1..Len(s)}

LowerChar(c) ==
    CASE c = "L" -> "l" [] c = "X" -> "x" [] c = "O" -> "o" [] c = "A" -> "a"
      [] c = "S" -> "s" [] c = "J" -> "j" [] c = "Y" -> "y" [] c = "D" -> "d"
      [] OTHER -> c

\* str.lower()
Lower(s) == [i \in 1..Len(s) |-> LowerChar(s[i])]

\* "needle in hay" on Python strings
Contains(hay, needle) ==
    \E i \in 0..(Len(hay) - Len(needle)) :
        \A j \in 1..Len(needle) : hay[i + j] = needle[j]

\* str.lower() on the read_status values
LowerStatus(s) ==
    CASE s = "Unread" -> "unread"
      [] s = "Reading" -> "reading"
      [] s = "Completed" -> "completed"
      [] OTHER -> s

\* ------------------------------------------------------------- the schema
COLUMNS == <<"websign", "author", "title", "tag", "read_status", "progress", "file_path">>

ColumnType(col) ==
    CASE col = "read_status" -> "status"
      [] col = "progress" -> "progress"
      [] OTHER -> "str"

\* dict.get(key, "") on an input dictionary: a TLA+ function whose domain is
\* the set of keys present
HasKey(d, k) == k \in DOMAIN d

\* VirtualDataModel._dict_to_tuple.  A missing text field is the empty string,
\* a missing tag the empty list, a missing status "" and a missing progress
\* int("") -> ValueError -> 0.  rid is the identity of the slot's record.
_dict_to_tuple(d, rid) ==
    [rid |-> rid,
     websign |-> IF HasKey(d, "websign") THEN d["websign"] ELSE TEmpty,
     author |-> IF HasKey(d, "author") THEN d["author"] ELSE TEmpty,
     title |-> IF HasKey(d, "title") THEN d["title"] ELSE TEmpty,
     tag |-> IF HasKey(d, "tag") THEN d["tag"] ELSE <<>>,
     read_status |-> IF HasKey(d, "read_status") THEN LowerStatus(d["read_status"]) ELSE "",
     progress |-> IF HasKey(d, "progress") THEN d["progress"] ELSE 0,
     file_path |-> IF HasKey(d, "file_path") THEN d["file_path"] ELSE TEmpty]

\* VirtualDataModel._tuple_to_dict: the dictionary with all columns present
_tuple_to_dict(t) ==
    [k \in Range(COLUMNS) |->
        CASE k = "websign" -> t.websign
          [] k = "author" -> t.author
          [] k = "title" -> t.title
          [] k = "tag" -> t.tag
          [] k = "read_status" -> t.read_status
          [] k = "progress" -> t.progress
          [] k = "file_path" -> t.file_path]

\* dict[key] = value
DictSet(d, k, v) == [x \in (DOMAIN d) \cup {k} |-> IF x = k THEN v ELSE d[x]]
\* del dict[key]
DictDel(d, k) == [x \in (DOMAIN d) \ {k} |-> d[x]]
EmptyDict == [x \in {} |-> 0]


\* ------------------------------------------------------------------ state
VARIABLES
    _raw_data,              \* VirtualDataModel._raw_data: the stored tuples
    _row_count,             \* VirtualDataModel._row_count
    _visible_rows,          \* VirtualDataModel._visible_rows: 0-based indices into _raw_data
    _filter_active,         \* VirtualDataModel._filter_active
    _filters,               \* VirtualDataModel._filters: keys "status", "tags"
    _text_filter_options,   \* VirtualDataModel._text_filter_options
    _text_filter_active,    \* VirtualDataModel._text_filter_active
    _custom_filter,         \* VirtualDataModel._custom_filter: the closure's captured options
    _custom_filter_active,  \* VirtualDataModel._custom_filter_active
    _row_styles,            \* VirtualDataModel._row_styles: raw indices with a background
    _display_cache,         \* VirtualDataModel._display_cache: <<raw index, column, role>> -> value
    websign_tracker,        \* TableController.websign_tracker: websign -> visible rows
    rebuild_pending,        \* the single-shot rebuild timer is armed
    next_rid,               \* history: number of records ever inserted
    removed,                \* history: identities of the records remove_row acted on
    sort_states,            \* VirtualTableView.sort_states: column -> "none", "asc", "desc"
    current_sort_column,    \* VirtualTableView.current_sort_column
    connected,              \* MainWindow has built the grid view and attached it to the model
    received,               \* the signals the last model operation sent to the attached grid
    _visible_widgets,       \* VirtualGridView._visible_widgets: row -> card, in insertion order
    widget_pool,            \* ComicCardDelegate.widget_pool: the WidgetPool and its cards
    import_lines,           \* FileIO.import_from_txt: lines of the file not yet read, -1 outside an import
    prompt_shown,           \* the import's last add_to_table called show_duplicate_warning
    yes_to_all_answered,    \* history: a prompt of the running import was answered "Yes to All"
    viewport_width,         \* VirtualGridView.viewport().width()
    viewport_height,        \* VirtualGridView.viewport().rect().height()
    scroll_y,               \* VirtualGridView.verticalScrollBar().value()
    window,                 \* the locals of the last update_visible_items that computed a window
    save_column_timer,      \* StateManager.save_column_timer: "idle" or "pending"
    save_table_timer,       \* StateManager.save_table_timer: "idle" or "pending"
    save_state_timer,       \* MainWindow.save_state_timer: "missing", "idle" or "pending"
    unsaved,                \* history: timer -> events since the timer's last save
    saves,                  \* history: timer -> saves made
    tag_fetch_thread,       \* WebController.tag_fetch_thread: the TagFetchThread and its position
    posted,                 \* signals the worker emitted, queued for the UI thread
    table_calls             \* history: <<thread, method>> of the calls made on main_window.table

vars == <<_raw_data, _row_count, _visible_rows, _filter_active, _filters,
          _text_filter_options, _text_filter_active, _custom_filter,
          _custom_filter_active, _row_styles, _display_cache, websign_tracker,
          rebuild_pending, next_rid, removed, sort_states, current_sort_column,
          connected, received, _visible_widgets, widget_pool,
          import_lines, prompt_shown, yes_to_all_answered,
          viewport_width, viewport_height, scroll_y, window,
          save_column_timer, save_table_timer, save_state_timer, unsaved, saves,
          tag_fetch_thread, posted, table_calls>>

store_vars == <<_raw_data, _row_count, _visible_rows, _filter_active>>
header_vars == <<sort_states, current_sort_column>>
grid_vars == <<connected, received, _visible_widgets, widget_pool>>
import_vars == <<import_lines, prompt_shown, yes_to_all_answered>>
viewport_vars == <<viewport_width, viewport_height, scroll_y, window>>
timer_vars == <<save_column_timer, save_table_timer, save_state_timer, unsaved, saves>>
thread_vars == <<tag_fetch_thread, posted, table_calls>>
shell_vars == <<viewport_vars, timer_vars, thread_vars>>
filter_vars == <<_filters, _text_filter_options, _text_filter_active,
                 _custom_filter, _custom_filter_active>>

\* self._raw_data[i] for a 0-based i
Raw(stored, i) == stored[i + 1]

\* ---------------------------------------------------------------- filters
\* str(row_data[col_index]) for the text columns
CellText(row, col) ==
    CASE col = "websign" -> row.websign
      [] col = "title" -> row.title
      [] col = "author" -> row.author

\* re.compile(pattern) raises re.error on an unbalanced parenthesis
RegexCompiles(pattern) == "(" \notin Range(pattern) /\ ")" \notin Range(pattern)

\* The matching both text predicates share: lower both sides unless case
\* sensitive; with use_regex search the compiled pattern (patterns here are
\* literal, so search is substring search) and fall back to substring search
\* when the pattern does not compile.
MatchText(cell, text, case_sensitive, use_regex) ==
    LET c == IF case_sensitive THEN cell ELSE Lower(cell)
        t == IF case_sensitive THEN text ELSE Lower(text)
    IN  IF use_regex
        THEN IF RegexCompiles(t) THEN Contains(c, t) ELSE Contains(c, t)
        ELSE Contains(c, t)

\* VirtualDataModel._check_row_condition
_check_row_condition(row_data, condition, case_sensitive, use_regex) ==
    IF condition.column \notin Range(COLUMNS)
    THEN FALSE
    ELSE MatchText(CellText(row_data, condition.column), condition.text,
                   case_sensitive, use_regex)

\* _is_row_in_text_filter with the logic option ignored: always AND
_is_row_in_text_filter_always_and(active, options, row_data) ==
    IF ~active THEN TRUE
    ELSE IF ~HasKey(options, "condition1") THEN TRUE
    ELSE LET m1 == _check_row_condition(row_data, options.condition1,
                                        options.case_sensitive, options.use_regex)
         IN  IF HasKey(options, "condition2")
             THEN m1 /\ _check_row_condition(row_data, options.condition2,
                                             options.case_sensitive, options.use_regex)
             ELSE m1

\* VirtualDataModel._is_row_in_text_filter
_is_row_in_text_filter(active, options, row_data) ==
    IF ~active THEN TRUE
    ELSE IF DOMAIN options = {} THEN TRUE
    ELSE IF ~HasKey(options, "condition1") THEN TRUE
    ELSE LET m1 == _check_row_condition(row_data, options.condition1,
                                        options.case_sensitive, options.use_regex)
         IN  IF HasKey(options, "condition2")
             THEN LET m2 == _check_row_condition(row_data, options.condition2,
                                                 options.case_sensitive, options.use_regex)
                  IN  IF options.logic = "AND" THEN m1 /\ m2 ELSE m1 \/ m2
             ELSE m1

\* The closure text_filter that TableController._apply_virtual_filter hands to
\* apply_advanced_filter; an empty search text matches everything.
text_filter(cf, row_tuple) ==
    LET m1 == IF cf.condition1.text = TEmpty THEN TRUE
              ELSE MatchText(CellText(row_tuple, cf.condition1.column),
                             cf.condition1.text, cf.case_sensitive, cf.use_regex)
    IN  IF HasKey(cf, "condition2")
        THEN LET m2 == IF cf.condition2.text = TEmpty THEN TRUE
                       ELSE MatchText(CellText(row_tuple, cf.condition2.column),
                                      cf.condition2.text, cf.case_sensitive, cf.use_regex)
             IN  IF cf.logic = "AND" THEN m1 /\ m2 ELSE m1 \/ m2
        ELSE m1

\* [tag.strip() for tag in row_dict.get('tag', '').split(',') if tag.strip()]
SplitTags(tag) == {tag[i] : i \in 1..Len(tag)} \ {""}

\* "not self._filters and not self._text_filter_active and not self._custom_filter_active"
NoFilters(f, tfa, cfa) == DOMAIN f = {} /\ ~tfa /\ ~cfa

\* a visibility test that skips the tag filter
_should_row_be_visible_without_tags(row_data, f, tfa, tfo, cfa, cf) ==
    IF NoFilters(f, tfa, cfa) THEN TRUE
    ELSE IF HasKey(f, "status") /\ LowerStatus(row_data.read_status) # f["status"] THEN FALSE
    ELSE IF tfa /\ ~_is_row_in_text_filter(tfa, tfo, row_data) THEN FALSE
    ELSE IF cfa /\ DOMAIN cf # {} /\ ~text_filter(cf, row_data) THEN FALSE
    ELSE TRUE

\* VirtualDataModel._should_row_be_visible
_should_row_be_visible(row_data, f, tfa, tfo, cfa, cf) ==
    IF NoFilters(f, tfa, cfa) THEN TRUE
    ELSE IF HasKey(f, "status") /\ LowerStatus(row_data.read_status) # f["status"] THEN FALSE
    ELSE IF HasKey(f, "tags") /\ SplitTags(row_data.tag) \cap f["tags"] = {} THEN FALSE
    ELSE IF tfa /\ ~_is_row_in_text_filter(tfa, tfo, row_data) THEN FALSE
    ELSE IF cfa /\ DOMAIN cf # {} /\ ~text_filter(cf, row_data) THEN FALSE
    ELSE TRUE

\* list(range(n))
RangeList(n) == [i \in 1..n |-> i - 1]

\* VirtualDataModel._rebuild_visible_rows: the new _visible_rows
RebuiltVisible(stored, f, tfa, tfo, cfa, cf) ==
    IF NoFilters(f, tfa, cfa)
    THEN RangeList(Len(stored))
    ELSE SelectSeq(RangeList(Len(stored)),
                   LAMBDA i : _should_row_be_visible(Raw(stored, i), f, tfa, tfo, cfa, cf))

\* VirtualDataModel._rebuild_visible_rows: the new _filter_active
RebuiltFilterActive(f, tfa, cfa) == ~NoFilters(f, tfa, cfa)


\* ------------------------------------------------------------------- sort
IsDigit(c) == c \in {"0", "1", "2", "3", "4", "5", "6", "7", "8", "9"}

DigitVal(c) ==
    CASE c = "0" -> 0 [] c = "1" -> 1 [] c = "2" -> 2 [] c = "3" -> 3 [] c = "4" -> 4
      [] c = "5" -> 5 [] c = "6" -> 6 [] c = "7" -> 7 [] c = "8" -> 8 [] c = "9" -> 9

RECURSIVE DigitsValue(_)
\* int(s) for a string of digits
DigitsValue(s) ==
    IF s = <<>> THEN 0
    ELSE 10 * DigitsValue(SubSeq(s, 1, Len(s) - 1)) + DigitVal(s[Len(s)])

\* re.findall(r'\d+', s)[0]: the first maximal run of digits
FirstDigitRun(s) ==
    LET starts == {i \in 1..Len(s) : IsDigit(s[i])}
    IN  IF starts = {} THEN <<>>
        ELSE LET a == CHOOSE i \in starts : \A j \in starts : i <= j
                 b == CHOOSE k \in a..Len(s) :
                        /\ \A j \in a..k : IsDigit(s[j])
                        /\ (k = Len(s) \/ ~IsDigit(s[k + 1]))
             IN  SubSeq(s, a, b)

\* code points of the letters in use
Ord(c) ==
    CASE IsDigit(c) -> 48 + DigitVal(c)
      [] c = "L" -> 76 [] c = "O" -> 79 [] c = "X" -> 88
      [] c = "l" -> 108 [] c = "o" -> 111 [] c = "x" -> 120
      [] c = "(" -> 40 [] c = ")" -> 41

\* sort_key with the websign column compared as text instead of as a number
sort_key_as_text(stored, column, row_idx) ==
    LET t == Raw(stored, row_idx)
    IN  CASE column = "websign" -> [i \in 1..Len(t.websign) |-> Ord(LowerChar(t.websign[i]))]
          [] column = "progress" -> <<t.progress>>
          [] column = "read_status" ->
               CASE t.read_status \in {"", "unread"} -> <<0>>
                 [] t.read_status = "reading" -> <<1>>
                 [] t.read_status = "completed" -> <<2>>
                 [] OTHER -> <<3>>
          [] column = "title" -> [i \in 1..Len(t.title) |-> Ord(LowerChar(t.title[i]))]
          [] column = "author" -> [i \in 1..Len(t.author) |-> Ord(LowerChar(t.author[i]))]
          [] column = "file_path" ->
               [i \in 1..Len(t.file_path) |-> Ord(LowerChar(t.file_path[i]))]

\* sort_key of VirtualDataModel.sort, as a sequence of integers compared
\* lexicographically (an integer key is a sequence of length one)
sort_key(stored, column, row_idx) ==
    LET t == Raw(stored, row_idx)
    IN  CASE column = "websign" ->
               IF t.websign = TEmpty THEN <<0>>
               ELSE IF \A i \in 1..Len(t.websign) : IsDigit(t.websign[i])
                    THEN <<DigitsValue(t.websign)>>
                    ELSE <<DigitsValue(FirstDigitRun(t.websign))>>
          [] column = "progress" -> <<t.progress>>
          [] column = "read_status" ->
               LET st == IF t.read_status = "" THEN "unread" ELSE LowerStatus(t.read_status)
               IN  CASE st = "unread" -> <<0>>
                     [] st = "reading" -> <<1>>
                     [] st = "completed" -> <<2>>
                     [] OTHER -> <<3>>
          [] column = "title" -> [i \in 1..Len(t.title) |-> Ord(LowerChar(t.title[i]))]
          [] column = "author" -> [i \in 1..Len(t.author) |-> Ord(LowerChar(t.author[i]))]
          [] column = "file_path" ->
               [i \in 1..Len(t.file_path) |-> Ord(LowerChar(t.file_path[i]))]

\* a < b on Python strings or integers
KeyLess(a, b) ==
    \/ \E i \in 1..Len(a) :
          /\ i <= Len(b)
          /\ a[i] < b[i]
          /\ \A j \in 1..(i - 1) : a[j] = b[j]
    \/ /\ Len(a) < Len(b)
       /\ \A j \in 1..Len(a) : a[j] = b[j]

\* x goes after every element that may not follow it: list.sort is stable,
\* and with reverse=True equal keys also keep their order
InsertSorted(stored, column, reverse, sorted, x) ==
    LET kx == sort_key(stored, column, x)
        Before(e) == IF reverse
                     THEN ~KeyLess(sort_key(stored, column, e), kx)
                     ELSE ~KeyLess(kx, sort_key(stored, column, e))
        n == Cardinality({i \in 1..Len(sorted) : Before(sorted[i])})
    IN  SubSeq(sorted, 1, n) \o <<x>> \o SubSeq(sorted, n + 1, Len(sorted))

RECURSIVE SortedBy(_, _, _, _)
\* rows.sort(key=sort_key, reverse=reverse)
SortedBy(stored, column, reverse, rows) ==
    IF rows = <<>> THEN <<>>
    ELSE InsertSorted(stored, column, reverse,
                      SortedBy(stored, column, reverse, SubSeq(rows, 1, Len(rows) - 1)),
                      rows[Len(rows)])


\* ---------------------------------------------------------- display cache
\* str.capitalize() on the read_status values
Capitalize(s) ==
    CASE s = "unread" -> "Unread"
      [] s = "reading" -> "Reading"
      [] s = "completed" -> "Completed"
      [] OTHER -> s

\* the raw value of a column of a stored tuple
_get_raw_value(stored, row, col) == _tuple_to_dict(Raw(stored, row))[col]

\* VirtualDataModel._format_display_value; f"{progress}%" is the pair of the
\* number and the percent sign
_format_display_value(value, column_type) ==
    CASE column_type = "progress" -> <<value, "%">>
      [] column_type = "status" -> Capitalize(value)
      [] OTHER -> value

\* VirtualDataModel._format_user_value
_format_user_value(value, column_type) ==
    CASE column_type = "progress" -> value
      [] column_type = "status" -> LowerStatus(value)
      [] OTHER -> value

\* VirtualDataModel._process_data for DisplayRole and UserRole
_process_data(raw_value, col, role) ==
    IF role = "DisplayRole"
    THEN _format_display_value(raw_value, ColumnType(col))
    ELSE _format_user_value(raw_value, ColumnType(col))

\* the value data() computes on a cache miss
ComputedValue(row, col, role) ==
    _process_data(_get_raw_value(_raw_data, _visible_rows[row + 1], col), col, role)

\* the value VirtualDataModel.data returns for a visible row
DataResult(row, col, role) ==
    LET key == <<_visible_rows[row + 1], col, role>>
    IN  IF key \in DOMAIN _display_cache
        THEN _display_cache[key]
        ELSE ComputedValue(row, col, role)

\* VirtualDataModel.data: a miss stores the computed value
data(row, col, role) ==
    /\ row \in 0..(Len(_visible_rows) - 1)
    /\ LET key == <<_visible_rows[row + 1], col, role>>
       IN  _display_cache' =
             IF key \in DOMAIN _display_cache
             THEN _display_cache
             ELSE DictSet(_display_cache, key, ComputedValue(row, col, role))

\* VirtualDataModel._invalidate_row_caches: the keys that start with
\* f"{actual_row}_" are the keys of that raw index
\* a store that leaves a row's cached values in place when the row changes
_keep_row_caches(cache, actual_row) == cache

_invalidate_row_caches(cache, actual_row) ==
    [k \in {x \in DOMAIN cache : x[1] # actual_row} |-> cache[k]]

\* batch_update_rows: _invalidate_row_caches for each updated row in turn
RECURSIVE InvalidateRows(_, _)
InvalidateRows(cache, rows) ==
    IF rows = {} THEN cache
    ELSE LET actual_row == CHOOSE r \in rows : TRUE
         IN  InvalidateRows(_invalidate_row_caches(cache, actual_row),
                            rows \ {actual_row})

\* VirtualDataModel._invalidate_caches
_invalidate_caches == EmptyDict

\* ------------------------------------------------------ store operations
\* VirtualDataModel.add_row: both branches append the new index
add_row(row_data) ==
    /\ _raw_data' = Append(_raw_data, _dict_to_tuple(row_data, next_rid))
    /\ _row_count' = _row_count + 1
    /\ _visible_rows' = Append(_visible_rows, _row_count' - 1)
    /\ _display_cache' = _invalidate_caches
    /\ next_rid' = next_rid + 1
    /\ UNCHANGED _filter_active

\* the tuples add_rows builds, in order
NewTuples(rows_data) ==
    [i \in 1..Len(rows_data) |-> _dict_to_tuple(rows_data[i], next_rid + i - 1)]

\* VirtualDataModel.add_rows: only the rows that pass the filters become visible
add_rows(rows_data) ==
    /\ rows_data # <<>>
    /\ LET new_tuples == NewTuples(rows_data)
           new_visible_indices ==
               SelectSeq([i \in 1..Len(rows_data) |-> _row_count + i - 1],
                         LAMBDA idx : _should_row_be_visible(
                                          new_tuples[idx - _row_count + 1], _filters,
                                          _text_filter_active, _text_filter_options,
                                          _custom_filter_active, _custom_filter))
       IN  /\ _raw_data' = _raw_data \o new_tuples
           /\ _row_count' = _row_count + Len(rows_data)
           /\ _visible_rows' = _visible_rows \o new_visible_indices
    /\ _display_cache' = _invalidate_caches
    /\ next_rid' = next_rid + Len(rows_data)
    /\ UNCHANGED _filter_active

\* del self._visible_rows[row]
DelAt(seq, row) == SubSeq(seq, 1, row) \o SubSeq(seq, row + 2, Len(seq))

\* VirtualDataModel.remove_row: the new _visible_rows; storage is untouched
RemovedVisible(visible, row) ==
    IF row < 0 \/ row >= Len(visible) THEN visible
    ELSE IF visible[row + 1] \in 0..(Len(_raw_data) - 1) THEN DelAt(visible, row)
    ELSE visible

\* VirtualDataModel.remove_row has no return statement: its result is None
remove_row_result(row) == FALSE

\* VirtualDataModel.remove_row
remove_row(row) ==
    /\ _visible_rows' = RemovedVisible(_visible_rows, row)
    /\ _display_cache' = IF row < 0 \/ row >= Len(_visible_rows)
                         THEN _display_cache ELSE _invalidate_caches
    /\ removed' = IF row \in 0..(Len(_visible_rows) - 1)
                  THEN removed \cup {Raw(_raw_data, _visible_rows[row + 1]).rid}
                  ELSE removed
    /\ UNCHANGED <<_raw_data, _row_count, _filter_active>>

\* VirtualDataModel.sort: with a filter active the storage itself is
\* reordered and the visible rows rebuilt, else only the visible rows are
\* reordered; the caches are cleared
sort(column, reverse) ==
    /\ IF column \notin Range(COLUMNS)
       THEN UNCHANGED <<_raw_data, _visible_rows, _filter_active, _display_cache>>
       ELSE /\ IF _filter_active
               THEN LET all_indices == SortedBy(_raw_data, column, reverse,
                                                RangeList(Len(_raw_data)))
                        reordered == [i \in 1..Len(_raw_data) |->
                                         Raw(_raw_data, all_indices[i])]
                    IN  /\ _raw_data' = reordered
                        /\ _visible_rows' =
                             RebuiltVisible(reordered, _filters, _text_filter_active,
                                            _text_filter_options, _custom_filter_active,
                                            _custom_filter)
                        /\ _filter_active' =
                             RebuiltFilterActive(_filters, _text_filter_active,
                                                 _custom_filter_active)
               ELSE /\ _visible_rows' = SortedBy(_raw_data, column, reverse, _visible_rows)
                    /\ UNCHANGED <<_raw_data, _filter_active>>
            /\ _display_cache' = _invalidate_caches
    /\ UNCHANGED _row_count


\* ----------------------------------------------------- filter operations
\* VirtualDataModel._rebuild_visible_rows under the primed filter state
_rebuild_visible_rows ==
    /\ _visible_rows' = RebuiltVisible(_raw_data, _filters', _text_filter_active',
                                       _text_filter_options', _custom_filter_active',
                                       _custom_filter')
    /\ _filter_active' = RebuiltFilterActive(_filters', _text_filter_active',
                                             _custom_filter_active')
    /\ UNCHANGED <<_raw_data, _row_count>>

\* VirtualDataModel._apply_filters
_apply_filters == _rebuild_visible_rows

\* VirtualDataModel.set_status_filter
set_status_filter(status) ==
    /\ _filters' = IF status = "all" THEN DictDel(_filters, "status")
                   ELSE DictSet(_filters, "status", status)
    /\ UNCHANGED <<_text_filter_options, _text_filter_active, _custom_filter,
                   _custom_filter_active>>
    /\ _apply_filters

\* VirtualDataModel.set_tag_filter
set_tag_filter(tags) ==
    /\ _filters' = IF tags = {} THEN DictDel(_filters, "tags")
                   ELSE DictSet(_filters, "tags", tags)
    /\ UNCHANGED <<_text_filter_options, _text_filter_active, _custom_filter,
                   _custom_filter_active>>
    /\ _apply_filters

\* VirtualDataModel.clear_filters: only the status and tag filters
clear_filters ==
    /\ _filters' = EmptyDict
    /\ UNCHANGED <<_text_filter_options, _text_filter_active, _custom_filter,
                   _custom_filter_active>>
    /\ _apply_filters

\* VirtualDataModel.apply_text_filter
apply_text_filter(search_options) ==
    /\ _text_filter_options' = search_options
    /\ _text_filter_active' = (DOMAIN search_options # {})
    /\ UNCHANGED <<_filters, _custom_filter, _custom_filter_active>>
    /\ _rebuild_visible_rows

\* VirtualDataModel.clear_text_filter
clear_text_filter ==
    /\ _text_filter_options' = EmptyDict
    /\ _text_filter_active' = FALSE
    /\ UNCHANGED <<_filters, _custom_filter, _custom_filter_active>>
    /\ _rebuild_visible_rows

\* VirtualDataModel.apply_advanced_filter
apply_advanced_filter(filter_func) ==
    /\ _custom_filter' = filter_func
    /\ _custom_filter_active' = TRUE
    /\ UNCHANGED <<_filters, _text_filter_options, _text_filter_active>>
    /\ _rebuild_visible_rows

\* VirtualDataModel.clear_advanced_filter
clear_advanced_filter ==
    /\ _custom_filter' = EmptyDict
    /\ _custom_filter_active' = FALSE
    /\ UNCHANGED <<_filters, _text_filter_options, _text_filter_active>>
    /\ _rebuild_visible_rows

\* VirtualDataModel.clear_all_data: the text and custom filters and
\* _filter_active are left as they are; no record outlives it, so the
\* history of identities starts again
clear_all_data ==
    /\ _raw_data' = <<>>
    /\ _row_count' = 0
    /\ _visible_rows' = <<>>
    /\ _filters' = EmptyDict
    /\ _display_cache' = _invalidate_caches
    /\ next_rid' = 0
    /\ removed' = {}
    /\ UNCHANGED <<_filter_active, _text_filter_options, _text_filter_active,
                   _custom_filter, _custom_filter_active>>

\* VirtualDataModel.load_from_list: clear_all_data, then add_rows under the
\* filters clear_all_data left
load_from_list(data_list) ==
    LET new_tuples == [i \in 1..Len(data_list) |-> _dict_to_tuple(data_list[i], i - 1)]
        new_visible_indices ==
            SelectSeq([i \in 1..Len(data_list) |-> i - 1],
                      LAMBDA idx : _should_row_be_visible(
                                       new_tuples[idx + 1], EmptyDict,
                                       _text_filter_active, _text_filter_options,
                                       _custom_filter_active, _custom_filter))
    IN  /\ _raw_data' = new_tuples
        /\ _row_count' = Len(data_list)
        /\ _visible_rows' = new_visible_indices
        /\ _filters' = EmptyDict
        /\ _display_cache' = _invalidate_caches
        /\ next_rid' = Len(data_list)
        /\ removed' = {}
        /\ UNCHANGED <<_filter_active, _text_filter_options, _text_filter_active,
                       _custom_filter, _custom_filter_active>>

\* ----------------------------------------------------- update operations
\* self._raw_data[actual_row] = new_tuple
StoreAt(stored, actual_row, row_data) ==
    [stored EXCEPT ![actual_row + 1] =
        _dict_to_tuple(row_data, stored[actual_row + 1].rid)]

\* VirtualDataModel.update_row: the value it returns
update_row_result(visible_row) ==
    /\ visible_row \in 0..(Len(_visible_rows) - 1)
    /\ _visible_rows[visible_row + 1] \in 0..(Len(_raw_data) - 1)

\* VirtualDataModel.update_row
update_row(visible_row, row_data) ==
    IF update_row_result(visible_row)
    THEN LET actual_row == _visible_rows[visible_row + 1]
         IN  /\ _raw_data' = StoreAt(_raw_data, actual_row, row_data)
             /\ _display_cache' = _invalidate_row_caches(_display_cache, actual_row)
    ELSE UNCHANGED <<_raw_data, _display_cache>>

\* VirtualDataModel.setData
setData(row, col, value) ==
    IF row \in 0..(Len(_visible_rows) - 1) /\ col \in Range(COLUMNS)
    THEN LET actual_row == _visible_rows[row + 1]
             current_data == DictSet(_tuple_to_dict(Raw(_raw_data, actual_row)), col, value)
         IN  /\ _raw_data' = StoreAt(_raw_data, actual_row, current_data)
             /\ _display_cache' = _invalidate_row_caches(_display_cache, actual_row)
    ELSE UNCHANGED <<_raw_data, _display_cache>>

\* actual_updates of batch_update_rows: raw index -> new data; when two
\* visible rows named the same raw index the later one would win, which
\* cannot happen while _visible_rows has no repeated entry
ActualUpdates(updates) ==
    LET valid == {v \in DOMAIN updates : v \in 0..(Len(_visible_rows) - 1)}
    IN  [a \in {_visible_rows[v + 1] : v \in valid} |->
            updates[CHOOSE v \in valid : _visible_rows[v + 1] = a]]

\* VirtualDataModel.batch_update_rows
batch_update_rows(updates) ==
    LET actual_updates == ActualUpdates(updates)
        touched == DOMAIN actual_updates
    IN  IF DOMAIN updates = {} \/ touched = {}
        THEN UNCHANGED <<_raw_data, _display_cache>>
        ELSE /\ _raw_data' =
                  [i \in 1..Len(_raw_data) |->
                      IF (i - 1) \in touched
                      THEN _dict_to_tuple(actual_updates[i - 1], _raw_data[i].rid)
                      ELSE _raw_data[i]]
             /\ _display_cache' = InvalidateRows(_display_cache, touched)

\* VirtualDataModel.setData: the value returned
setData_result(row, col) ==
    /\ row \in 0..(Len(_visible_rows) - 1)
    /\ col \in Range(COLUMNS)

\* VirtualDataModel.batch_update_rows: the value returned; True for an empty
\* dictionary, False when no key is a visible row
batch_update_rows_result(updates) ==
    IF DOMAIN updates = {} THEN TRUE
    ELSE DOMAIN ActualUpdates(updates) # {}

\* VirtualDataModel.set_row_background: the new _row_styles
set_row_background(styles, visible, visible_row) ==
    IF visible_row < 0 \/ visible_row >= Len(visible) THEN styles
    ELSE styles \cup {visible[visible_row + 1]}

\* VirtualDataModel.find_duplicates('websign'): value -> visible rows, only
\* for values that occur more than once among the visible rows
find_duplicates(stored, visible) ==
    LET value(v) == Raw(stored, visible[v + 1]).websign
        rows == {v \in 0..(Len(visible) - 1) : visible[v + 1] < Len(stored)}
        values == {value(v) : v \in rows}
        RowsOf(w) == SelectSeq(RangeList(Len(visible)),
                               LAMBDA v : v \in rows /\ value(v) = w)
    IN  [w \in {x \in values : Len(RowsOf(x)) > 1} |-> RowsOf(w)]


\* ------------------------------------------------------------ controllers
\* TableController.highlight_duplicate_rows: the new _row_styles
highlight_duplicate_rows(tracker, styles, visible, websign) ==
    IF websign \notin DOMAIN tracker THEN styles
    ELSE IF Len(tracker[websign]) > 1
         THEN styles \cup {visible[r + 1] :
                             r \in {x \in Range(tracker[websign]) : x \in 0..(Len(visible) - 1)}}
         ELSE styles

\* TableController.add_to_table.  response is the answer to the duplicate
\* prompt, which is shown when the websign is a key of the tracker.
add_to_table(d, response) ==
    LET websign == d["websign"]
    IN  IF websign # TEmpty /\ websign \in DOMAIN websign_tracker /\ response = "No"
        THEN UNCHANGED <<_raw_data, _row_count, _visible_rows, _filter_active,
                         _display_cache, next_rid, websign_tracker, _row_styles>>
        ELSE /\ add_row(d)
             /\ LET new_visible_row == Len(_visible_rows') - 1
                    old == IF websign \in DOMAIN websign_tracker
                           THEN websign_tracker[websign] ELSE <<>>
                    tracker == IF websign # TEmpty
                               THEN DictSet(websign_tracker, websign,
                                            Append(old, new_visible_row))
                               ELSE websign_tracker
                IN  /\ websign_tracker' = tracker
                    /\ _row_styles' =
                         IF websign # TEmpty
                         THEN highlight_duplicate_rows(tracker, _row_styles,
                                                       _visible_rows', websign)
                         ELSE _row_styles

\* TableController.rebuild_websign_tracker: the new tracker
rebuild_websign_tracker(stored, visible) == find_duplicates(stored, visible)

\* TableController.rebuild_websign_tracker: the new _row_styles; every key
\* of the rebuilt tracker is highlighted and no style is cleared
RebuiltStyles(stored, visible, styles) ==
    LET tracker == rebuild_websign_tracker(stored, visible)
    IN  styles \cup {visible[r + 1] : r \in UNION {Range(tracker[w]) : w \in DOMAIN tracker}}

\* TableController._schedule_rebuild is called by delete_rows and defined
\* nowhere in the sources: from the specification, it (re)starts the
\* single-shot 500 ms timer
_schedule_rebuild == TRUE

\* the timeout of that timer, from the specification
rebuild_timer_timeout ==
    /\ rebuild_pending
    /\ rebuild_pending' = FALSE
    /\ websign_tracker' = rebuild_websign_tracker(_raw_data, _visible_rows)
    /\ _row_styles' = RebuiltStyles(_raw_data, _visible_rows, _row_styles)

Max(S) == CHOOSE m \in S : \A x \in S : x <= m

RECURSIVE RemovedAll(_, _)
\* "rows.sort(reverse=True)" and then "for row in rows: model.remove_row(row)"
RemovedAll(visible, rows) ==
    IF rows = {} THEN visible
    ELSE RemovedAll(RemovedVisible(visible, Max(rows)), rows \ {Max(rows)})

\* TableVisualManager.delete_rows.  reply is the answer to the confirmation;
\* deleted_count counts the truthy results of remove_row.
delete_rows(rows, reply) ==
    IF rows = {} \/ reply = "No"
    THEN UNCHANGED <<_visible_rows, _display_cache, removed, rebuild_pending>>
    ELSE LET valid == {r \in rows : r \in 0..(Len(_visible_rows) - 1)}
             deleted_count == Cardinality({r \in rows : remove_row_result(r)})
         IN  /\ _visible_rows' = RemovedAll(_visible_rows, rows)
             /\ _display_cache' = IF valid = {} THEN _display_cache ELSE _invalidate_caches
             /\ removed' = removed \cup
                             {Raw(_raw_data, _visible_rows[r + 1]).rid : r \in valid}
             /\ rebuild_pending' = IF deleted_count > 0 THEN _schedule_rebuild
                                   ELSE rebuild_pending

\* max(0, min(100, progress))
Clamp(progress) == IF progress < 0 THEN 0 ELSE IF progress > 100 THEN 100 ELSE progress

\* the read_status TableController.update_progress derives
StatusOfProgress(progress_value) ==
    IF progress_value = 0 THEN "unread"
    ELSE IF progress_value = 100 THEN "completed"
    ELSE "reading"

\* TableController.update_progress: each valid row gets the clamped progress
\* and the derived read_status through update_row
update_progress(rows, progress) ==
    LET valid == {r \in rows : /\ r \in 0..(Len(_visible_rows) - 1)
                               /\ _visible_rows[r + 1] \in 0..(Len(_raw_data) - 1)}
        touched == {_visible_rows[r + 1] : r \in valid}
        progress_value == Clamp(progress)
        NewData(t) == DictSet(DictSet(_tuple_to_dict(t), "progress", progress_value),
                              "read_status", StatusOfProgress(progress_value))
    IN  /\ _raw_data' = [i \in 1..Len(_raw_data) |->
                            IF (i - 1) \in touched
                            THEN _dict_to_tuple(NewData(_raw_data[i]), _raw_data[i].rid)
                            ELSE _raw_data[i]]
        /\ _display_cache' = InvalidateRows(_display_cache, touched)

\* MainWindow.update_row_data: the edit dialog's data replaces the row, and
\* the tracker is rebuilt when the websign changed (the cells read through
\* get_cell_text are of the updated row, whose cache entries update_row drops)
update_row_data(row, d) ==
    LET old_websign == IF row \in 0..(Len(_visible_rows) - 1)
                       THEN Raw(_raw_data, _visible_rows[row + 1]).websign
                       ELSE TEmpty
        new_websign == IF HasKey(d, "websign") THEN d["websign"] ELSE TEmpty
        websign_changed == old_websign # new_websign
    IN  /\ update_row(row, d)
        /\ IF update_row_result(row) /\ websign_changed
           THEN /\ websign_tracker' = rebuild_websign_tracker(_raw_data', _visible_rows)
                /\ _row_styles' = RebuiltStyles(_raw_data', _visible_rows, _row_styles)
           ELSE UNCHANGED <<websign_tracker, _row_styles>>


\* --------------------------------------------------------- header sorting
\* the column index -1
NoColumn == "-1"

\* self.COLUMNS[column] in VirtualDataModel.sort: a negative index counts
\* from the end of the list, so that -1 names the last column
ColumnOfIndex(column) == IF column = NoColumn THEN COLUMNS[Len(COLUMNS)] ELSE column

\* QTableView.sortByColumn with sorting enabled: the view asks its model to
\* sort on that column in that order
sortByColumn(column, reverse) == sort(ColumnOfIndex(column), reverse)

\* self.sort_states.get(logical_index, "none")
SortState(states, column) == IF column \in DOMAIN states THEN states[column] ELSE "none"

\* a header that only toggles between the two directions
TwoStateToggle(current_state) ==
    IF current_state = "asc" THEN "desc" ELSE "asc"

\* the next state in the cycle of on_header_clicked
NextSortState(current_state) ==
    CASE current_state = "none" -> "asc"
      [] current_state = "asc" -> "desc"
      [] OTHER -> "none"

\* VirtualTableView.apply_sort: switching columns clears only the header's
\* indicator; sort_states keeps the entry of the previous column
apply_sort(column, sort_state) ==
    /\ current_sort_column' = column
    /\ sort_states' = DictSet(sort_states, column, sort_state)
    /\ CASE sort_state = "none" -> sortByColumn(NoColumn, FALSE)
         [] sort_state = "asc" -> sortByColumn(column, FALSE)
         [] OTHER -> sortByColumn(column, TRUE)

\* VirtualTableView.on_header_clicked
on_header_clicked(logical_index) ==
    apply_sort(logical_index, NextSortState(SortState(sort_states, logical_index)))

\* VirtualTableView.clear_all_sorting
clear_all_sorting ==
    /\ sort_states' = EmptyDict
    /\ current_sort_column' = NoColumn
    /\ sortByColumn(NoColumn, FALSE)


\* ------------------------------------------------- change notifications
\* a signal of QAbstractTableModel as an observer receives it; first and
\* last are the visible rows it carries, -1 where it carries none
Signal(sig, first, last) == [sig |-> sig, first |-> first, last |-> last]

\* VirtualDataModel.get_row_data: {} outside the visible rows
get_row_data(stored, visible, visible_row) ==
    IF visible_row < 0 \/ visible_row >= Len(visible) THEN EmptyDict
    ELSE IF visible[visible_row + 1] >= Len(stored) THEN EmptyDict
    ELSE _tuple_to_dict(Raw(stored, visible[visible_row + 1]))

\* add_row: beginInsertRows/endInsertRows only in the branch of a record that
\* passes the filters
add_row_signals(row_data) ==
    IF _should_row_be_visible(_dict_to_tuple(row_data, next_rid), _filters,
                              _text_filter_active, _text_filter_options,
                              _custom_filter_active, _custom_filter)
    THEN <<Signal("rowsInserted", Len(_visible_rows), Len(_visible_rows))>>
    ELSE <<>>

\* remove_row: beginRemoveRows/endRemoveRows around the deletion
remove_row_signals(row) ==
    IF row < 0 \/ row >= Len(_visible_rows) THEN <<>>
    ELSE IF _visible_rows[row + 1] \in 0..(Len(_raw_data) - 1)
    THEN <<Signal("rowsRemoved", row, row)>>
    ELSE <<>>

\* sort: layoutAboutToBeChanged first, layoutChanged last, for a column of
\* the schema
sort_signals ==
    <<Signal("layoutAboutToBeChanged", -1, -1), Signal("layoutChanged", -1, -1)>>

\* _apply_filters: a model reset, and layoutChanged only when the number of
\* visible rows changed
_apply_filters_signals(old_count, new_count) ==
    <<Signal("modelAboutToBeReset", -1, -1), Signal("modelReset", -1, -1)>>
    \o (IF old_count # new_count THEN <<Signal("layoutChanged", -1, -1)>> ELSE <<>>)

\* apply_text_filter, clear_text_filter, apply_advanced_filter and
\* clear_advanced_filter call _rebuild_visible_rows and emit nothing
_rebuild_visible_rows_signals == <<>>

\* clear_all_data: beginResetModel/endResetModel
clear_all_data_signals ==
    <<Signal("modelAboutToBeReset", -1, -1), Signal("modelReset", -1, -1)>>

\* update_row and setData: dataChanged for the one visible row
dataChanged_signals(row) ==
    IF update_row_result(row) THEN <<Signal("dataChanged", row, row)>> ELSE <<>>

\* ------------------------------------------------- the pool of card widgets
\* Python dictionaries iterate in insertion order: a dictionary the code
\* iterates is a sequence of entries [k, v]
ODom(od) == {od[i].k : i \in 1..Len(od)}
OGet(od, k) == od[CHOOSE i \in 1..Len(od) : od[i].k = k].v
OKeys(od) == [i \in 1..Len(od) |-> od[i].k]
OSet(od, k, v) ==
    IF k \in ODom(od)
    THEN [i \in 1..Len(od) |-> IF od[i].k = k THEN [k |-> k, v |-> v] ELSE od[i]]
    ELSE Append(od, [k |-> k, v |-> v])
ODel(od, k) == SelectSeq(od, LAMBDA e : e.k # k)

Min(a, b) == IF a < b THEN a ELSE b

NoCoverText == <<"No cover">>

\* ComicCardWidget.__init__ and init_ui: empty labels.  shown is the widget's
\* own show()/hide() state, load_timers the pending
\* QTimer.singleShot(10, self.load_cover_image) calls
ComicCardWidget ==
    [current_row |-> -1, is_selected |-> FALSE, title |-> <<>>, status |-> "",
     cover |-> <<>>, shown |-> FALSE, load_timers |-> 0]

\* title[:8] + '...' for a title longer than 10
TitleText(title) ==
    IF Len(title) > 10 THEN SubSeq(title, 1, 8) \o <<".", ".", ".">> ELSE title

StatusText(status) ==
    CASE status = "unread" -> "Unread"
      [] status = "reading" -> "Reading"
      [] status = "completed" -> "Completed"
      [] OTHER -> status

\* ComicCardWidget.update_content
update_content(w, row_data, row_index) ==
    [w EXCEPT !.current_row = row_index,
              !.title = TitleText(IF HasKey(row_data, "title")
                                  THEN row_data["title"] ELSE <<>>),
              !.status = StatusText(IF HasKey(row_data, "read_status")
                                    THEN row_data["read_status"] ELSE "unread"),
              !.load_timers = Min(@ + 1, MaxLoadTimers)]

\* a clear that leaves the cover label as it is
clear_keeping_cover(w) ==
    [w EXCEPT !.current_row = -1, !.is_selected = FALSE,
              !.title = <<>>, !.status = ""]

\* ComicCardWidget.clear
clear(w) ==
    [w EXCEPT !.current_row = -1, !.is_selected = FALSE, !.cover = <<>>,
              !.title = <<>>, !.status = ""]

\* ComicCardWidget.load_cover_image, one pending timer firing.  found: the
\* web controller returned a pixmap for the websign
load_cover_image(w, stored, visible, found) ==
    LET fired == [w EXCEPT !.load_timers = @ - 1]
        row_data == get_row_data(stored, visible, w.current_row)
    IN  IF w.current_row < 0 \/ ~w.shown THEN fired
        ELSE IF row_data = EmptyDict THEN fired
        ELSE IF row_data["websign"] = TEmpty THEN [fired EXCEPT !.cover = NoCoverText]
        ELSE IF found THEN [fired EXCEPT !.cover = row_data["websign"]]
        ELSE [fired EXCEPT !.cover = NoCoverText]

\* WidgetPool.__init__ with _precreate_widgets(10).  widgets holds the card
\* objects ever created; a card is named by its position there
WidgetPool ==
    LET n == Min(precreate_count, max_size)
    IN  [_available_widgets |-> [i \in 1..n |-> i],
         _in_use_widgets |-> <<>>,
         _visible_rows |-> {},
         widgets |-> [i \in 1..n |-> ComicCardWidget]]

None == 0

\* an acquire_widget without the capacity test
acquire_widget_unbounded(pool, row, row_data) ==
    IF row \in ODom(pool._in_use_widgets)
    THEN LET widget == OGet(pool._in_use_widgets, row)
         IN  [pool |-> [pool EXCEPT !.widgets[widget] = update_content(@, row_data, row)],
              widget |-> widget]
    ELSE LET reused == pool._available_widgets # <<>>
             widget == IF reused
                       THEN pool._available_widgets[Len(pool._available_widgets)]
                       ELSE Len(pool.widgets) + 1
             objects == IF reused THEN pool.widgets
                        ELSE Append(pool.widgets, ComicCardWidget)
         IN  [pool |->
                [_available_widgets |->
                    IF reused
                    THEN SubSeq(pool._available_widgets, 1,
                                Len(pool._available_widgets) - 1)
                    ELSE pool._available_widgets,
                 _in_use_widgets |-> OSet(pool._in_use_widgets, row, widget),
                 _visible_rows |-> pool._visible_rows \cup {row},
                 widgets |-> [objects EXCEPT ![widget] =
                                 update_content(@, row_data, row)]],
              widget |-> widget]

\* acquire_widget handing a bound row its card as it is, content not updated
acquire_widget_without_update(pool, row, row_data) ==
    IF row \in ODom(pool._in_use_widgets)
    THEN [pool |-> pool, widget |-> OGet(pool._in_use_widgets, row)]
    ELSE IF pool._available_widgets = <<>> /\ Len(pool._in_use_widgets) >= max_size
    THEN [pool |-> pool, widget |-> None]
    ELSE LET reused == pool._available_widgets # <<>>
             widget == IF reused
                       THEN pool._available_widgets[Len(pool._available_widgets)]
                       ELSE Len(pool.widgets) + 1
             objects == IF reused THEN pool.widgets
                        ELSE Append(pool.widgets, ComicCardWidget)
         IN  [pool |->
                [_available_widgets |->
                    IF reused
                    THEN SubSeq(pool._available_widgets, 1,
                                Len(pool._available_widgets) - 1)
                    ELSE pool._available_widgets,
                 _in_use_widgets |-> OSet(pool._in_use_widgets, row, widget),
                 _visible_rows |-> pool._visible_rows \cup {row},
                 widgets |-> [objects EXCEPT ![widget] =
                                 update_content(@, row_data, row)]],
              widget |-> widget]

\* WidgetPool.acquire_widget: the pool afterwards and the widget returned
acquire_widget(pool, row, row_data) ==
    IF row \in ODom(pool._in_use_widgets)
    THEN LET widget == OGet(pool._in_use_widgets, row)
         IN  [pool |-> [pool EXCEPT !.widgets[widget] = update_content(@, row_data, row)],
              widget |-> widget]
    ELSE IF pool._available_widgets = <<>>
            /\ Len(pool._in_use_widgets) >= max_size
    THEN [pool |-> pool, widget |-> None]
    ELSE LET reused == pool._available_widgets # <<>>
             widget == IF reused
                       THEN pool._available_widgets[Len(pool._available_widgets)]
                       ELSE Len(pool.widgets) + 1
             objects == IF reused THEN pool.widgets
                        ELSE Append(pool.widgets, ComicCardWidget)
         IN  [pool |->
                [_available_widgets |->
                    IF reused
                    THEN SubSeq(pool._available_widgets, 1,
                                Len(pool._available_widgets) - 1)
                    ELSE pool._available_widgets,
                 _in_use_widgets |-> OSet(pool._in_use_widgets, row, widget),
                 _visible_rows |-> pool._visible_rows \cup {row},
                 widgets |-> [objects EXCEPT ![widget] =
                                 update_content(@, row_data, row)]],
              widget |-> widget]

\* a release_widget that returns the card to the free list and leaves the
\* row bound to it
release_widget_keeping_row(pool, row) ==
    IF row \in ODom(pool._in_use_widgets)
    THEN LET widget == OGet(pool._in_use_widgets, row)
         IN  [_available_widgets |-> Append(pool._available_widgets, widget),
              _in_use_widgets |-> pool._in_use_widgets,
              _visible_rows |-> pool._visible_rows \ {row},
              widgets |-> [pool.widgets EXCEPT ![widget] = clear(@)]]
    ELSE pool

\* WidgetPool.release_widget
release_widget(pool, row) ==
    IF row \in ODom(pool._in_use_widgets)
    THEN LET widget == OGet(pool._in_use_widgets, row)
         IN  [_available_widgets |-> Append(pool._available_widgets, widget),
              _in_use_widgets |-> ODel(pool._in_use_widgets, row),
              _visible_rows |-> pool._visible_rows \ {row},
              widgets |-> [pool.widgets EXCEPT ![widget] = clear(@)]]
    ELSE pool

RECURSIVE ReleaseRows(_, _)
\* for row in rows: self.release_widget(row)
ReleaseRows(pool, rows) ==
    IF rows = <<>> THEN pool
    ELSE ReleaseRows(release_widget(pool, Head(rows)), Tail(rows))

RECURSIVE SetToSeq(_)
\* the rows of a set of small integers, in the order Python iterates them
SetToSeq(S) ==
    IF S = {} THEN <<>>
    ELSE LET m == CHOOSE x \in S : \A y \in S : x <= y
         IN  <<m>> \o SetToSeq(S \ {m})

\* WidgetPool.update_visible_range: it releases and never acquires
update_visible_range(pool, start_row, end_row) ==
    LET visible_set == start_row..end_row
        released == ReleaseRows(pool, SetToSeq(pool._visible_rows \ visible_set))
    IN  [released EXCEPT !._visible_rows = visible_set]

\* WidgetPool.invalidate_all
invalidate_all(pool) == ReleaseRows(pool, OKeys(pool._in_use_widgets))

\* ------------------------------------------------------------ the grid view
\* the grid's _visible_widgets together with its delegate's pool
Grid(visible_widgets, pool) == [_visible_widgets |-> visible_widgets, pool |-> pool]

\* widget.hide() / widget.show()
SetShown(pool, widget, shown) == [pool EXCEPT !.widgets[widget].shown = shown]

\* VirtualGridView._create_widget_for_row
_create_widget_for_row(g, row, stored, visible) ==
    LET row_data == get_row_data(stored, visible, row)
        acquired == acquire_widget(g.pool, row, row_data)
    IN  IF row < 0 \/ row >= Len(visible) THEN g
        ELSE IF row_data = EmptyDict THEN g
        ELSE IF acquired.widget = None THEN g
        ELSE Grid(OSet(g._visible_widgets, row, acquired.widget),
                  SetShown(acquired.pool, acquired.widget, TRUE))

RECURSIVE _update_widgets_for_rows(_, _, _, _, _)
\* VirtualGridView._update_widgets_for_rows: a row that has a widget keeps
\* it, with its content
_update_widgets_for_rows(g, start_row, end_row, stored, visible) ==
    IF start_row > end_row THEN g
    ELSE _update_widgets_for_rows(
             IF start_row \in ODom(g._visible_widgets) THEN g
             ELSE _create_widget_for_row(g, start_row, stored, visible),
             start_row + 1, end_row, stored, visible)

RECURSIVE RemoveWidgets(_, _)
\* release_widget(row); widget.hide(); del self._visible_widgets[row]
RemoveWidgets(g, rows) ==
    IF rows = <<>> THEN g
    ELSE LET row == Head(rows)
             widget == OGet(g._visible_widgets, row)
         IN  RemoveWidgets(Grid(ODel(g._visible_widgets, row),
                                SetShown(release_widget(g.pool, row), widget, FALSE)),
                           Tail(rows))

\* VirtualGridView._remove_non_visible_widgets
_remove_non_visible_widgets(g, start_row, end_row) ==
    RemoveWidgets(g, SelectSeq(OKeys(g._visible_widgets),
                               LAMBDA row : row < start_row \/ row > end_row))

\* VirtualGridView._clear_all_widgets
_clear_all_widgets(g) == RemoveWidgets(g, OKeys(g._visible_widgets))

RECURSIVE ShowWidgets(_, _)
ShowWidgets(pool, widgets) ==
    IF widgets = <<>> THEN pool
    ELSE ShowWidgets(SetShown(pool, Head(widgets), TRUE), Tail(widgets))

\* VirtualGridView.update_widget_positions: the widgets of valid rows are
\* placed and shown; they are the rows of the last window, next to the
\* viewport
update_widget_positions(g, visible) ==
    LET placed == SelectSeq(g._visible_widgets, LAMBDA e : e.k < Len(visible))
    IN  Grid(g._visible_widgets,
             ShowWidgets(g.pool, [i \in 1..Len(placed) |-> placed[i].v]))

\* VirtualGridView._update_grid_metrics: card size plus spacing
grid_width == 155
grid_height == 265
\* buffer_rows of update_visible_items
buffer_rows == 2

\* _calculate_columns_per_row giving a single column whatever the width
_calculate_columns_per_row_single(viewport_w) == 1

\* VirtualGridView._calculate_columns_per_row
_calculate_columns_per_row(viewport_w) ==
    IF viewport_w <= 0 \/ grid_width <= 0 THEN 1
    ELSE Max({1, viewport_w \div grid_width})

\* the viewport arithmetic of VirtualGridView.update_visible_items: its locals
\* for a viewport, a scroll position and a model of rowCount > 0 rows
update_visible_items_window(viewport_w, viewport_h, scroll, rowCount) ==
    LET visible_top_virtual == scroll
        visible_bottom_virtual == scroll + viewport_h
        columns_per_row == _calculate_columns_per_row(viewport_w)
        start_grid_y == visible_top_virtual \div grid_height
        end_grid_y == visible_bottom_virtual \div grid_height
        start_row == Max({0, start_grid_y * columns_per_row})
        end_row == Min(rowCount - 1, (end_grid_y + 1) * columns_per_row - 1)
        buffer_grid_y == buffer_rows
    IN  [computed |-> TRUE,
         rowCount |-> rowCount,
         columns_per_row |-> columns_per_row,
         start_grid_y |-> start_grid_y,
         end_grid_y |-> end_grid_y,
         base_start_row |-> start_row,
         base_end_row |-> end_row,
         start_row |-> Max({0, start_row - buffer_grid_y * columns_per_row}),
         end_row |-> Min(rowCount - 1, end_row + buffer_grid_y * columns_per_row)]

\* no window computed yet
NoWindow ==
    [computed |-> FALSE, rowCount |-> 0, columns_per_row |-> 0, start_grid_y |-> 0,
     end_grid_y |-> 0, base_start_row |-> 0, base_end_row |-> 0, start_row |-> 0,
     end_row |-> 0]

\* VirtualGridView.update_visible_items, for the window start_row..end_row its
\* viewport arithmetic gives: widgets are acquired first and released after
update_visible_items(g, start_row, end_row, stored, visible) ==
    IF Len(visible) = 0 THEN _clear_all_widgets(g)
    ELSE update_widget_positions(
             _remove_non_visible_widgets(
                 _update_widgets_for_rows(g, start_row, end_row, stored, visible),
                 start_row, end_row),
             visible)

RECURSIVE UpdateInUse(_, _, _, _, _)
\* ComicCardDelegate.on_model_data_changed
UpdateInUse(pool, first, last, stored, visible) ==
    IF first > last THEN pool
    ELSE LET row_data == get_row_data(stored, visible, first)
         IN  UpdateInUse(
                 IF first \in ODom(pool._in_use_widgets) /\ row_data # EmptyDict
                 THEN [pool EXCEPT !.widgets[OGet(pool._in_use_widgets, first)] =
                                       update_content(@, row_data, first)]
                 ELSE pool,
                 first + 1, last, stored, visible)

RECURSIVE UpdateVisibleWidgets(_, _, _, _, _)
\* VirtualGridView._on_model_data_changed
UpdateVisibleWidgets(g, first, last, stored, visible) ==
    IF first > last THEN g
    ELSE UpdateVisibleWidgets(
             IF first \in ODom(g._visible_widgets)
             THEN Grid(g._visible_widgets,
                       [g.pool EXCEPT !.widgets[OGet(g._visible_widgets, first)] =
                            update_content(@, get_row_data(stored, visible, first),
                                           first)])
             ELSE g,
             first + 1, last, stored, visible)

\* VirtualGridView._on_rows_removed: only the widgets of the removed rows
_on_rows_removed(g, first, last, visible) ==
    update_widget_positions(
        RemoveWidgets(g, SelectSeq(SetToSeq(first..last),
                                   LAMBDA row : row \in ODom(g._visible_widgets))),
        visible)

\* the slots connected to the model, in the order they were connected: the
\* delegate's (ComicCardDelegate.__init__) before the grid's
\* (set_main_window_model).  Nothing is connected to modelReset.
HandleSignal(g, s, stored, visible) ==
    CASE s.sig = "dataChanged" ->
             UpdateVisibleWidgets(
                 Grid(g._visible_widgets,
                      UpdateInUse(g.pool, s.first, s.last, stored, visible)),
                 s.first, s.last, stored, visible)
      [] s.sig = "rowsInserted" -> _clear_all_widgets(g)
      [] s.sig = "rowsRemoved" -> _on_rows_removed(g, s.first, s.last, visible)
      [] s.sig = "layoutChanged" ->
             _clear_all_widgets(Grid(g._visible_widgets, invalidate_all(g.pool)))
      [] OTHER -> g

RECURSIVE HandleSignals(_, _, _, _)
HandleSignals(g, signals, stored, visible) ==
    IF signals = <<>> THEN g
    ELSE HandleSignals(HandleSignal(g, Head(signals), stored, visible),
                       Tail(signals), stored, visible)


\* load_from_list: its own reset around clear_all_data's reset and add_rows'
\* rowsInserted
load_from_list_signals(visible_count) ==
    <<Signal("modelAboutToBeReset", -1, -1)>> \o clear_all_data_signals
    \o (IF visible_count > 0 THEN <<Signal("rowsInserted", 0, visible_count - 1)>>
        ELSE <<>>)
    \o <<Signal("modelReset", -1, -1)>>

\* the attached grid view receives the signals of an operation while the
\* operation runs; its slots read the model as the operation left it
Deliver(signals) ==
    IF connected
    THEN LET g == HandleSignals(Grid(_visible_widgets, widget_pool), signals,
                                _raw_data', _visible_rows')
         IN  /\ received' = signals
             /\ _visible_widgets' = g._visible_widgets
             /\ widget_pool' = g.pool
             /\ UNCHANGED connected
    ELSE UNCHANGED grid_vars

\* an operation driven while no grid view is attached
Unobserved == ~connected /\ UNCHANGED grid_vars

\* VirtualDataModel.get_total_rows
get_total_rows == Len(_raw_data)

\* VirtualDataModel.get_debug_info: its 'data' entry
get_debug_info ==
    [total_rows |-> Len(_raw_data),
     visible_rows |-> Len(_visible_rows),
     filtered_out |-> Len(_raw_data) - Len(_visible_rows)]

\* ----------------------------------------------------------------- inputs
\* what add_to_table receives after _process_input_data: all fields present
Rec(websign, title, tag, read_status, progress) ==
    [websign |-> websign, title |-> title, tag |-> tag,
     read_status |-> read_status, progress |-> progress]

InsertDicts ==
    {Rec(T100, TLove, <<"a">>, "reading", 50),
     Rec(T101, TX, <<>>, "unread", 0)}

\* a record with a file path, as TableController.add_to_table stores it
PathDicts ==
    {[websign |-> T100, title |-> TLove, tag |-> <<"a">>, read_status |-> "reading",
      progress |-> 50, file_path |-> TX]}

\* EditDialog.get_edited_data: no read_status and no progress
EditDicts == {[websign |-> T101, title |-> TX, tag |-> <<>>]}

StatusFilters == {"all", "reading"}
TagFilters == {{}, {"a"}}
TextFilters ==
    {[condition1 |-> [column |-> "title", text |-> <<"l">>], logic |-> "AND",
      case_sensitive |-> FALSE, use_regex |-> FALSE]}
CustomFilters ==
    {[condition1 |-> [column |-> "websign", text |-> T100], logic |-> "AND",
      case_sensitive |-> FALSE, use_regex |-> FALSE]}
SortColumns == {"websign", "progress"}
\* rows and queries for the text filter
TLoveStory == <<"A", " ", "L", "o", "v", "e", " ", "S", "t", "o", "r", "y">>
TJones == <<"J", "o", "n", "e", "s">>
TSmith == <<"S", "m", "i", "t", "h">>
TDoe == <<"D", "o", "e">>
TParen == <<"a", "(", "x">>
TextRow(title, author) == [websign |-> T100, title |-> title, author |-> author]
TextRows ==
    {TextRow(TLoveStory, TJones), TextRow(<<"X">>, TSmith), TextRow(<<"Y">>, TDoe),
     TextRow(TParen, TSmith)}
TextLists == [1..MaxListLen -> TextRows]
Condition(column, text) == [column |-> column, text |-> text]
TextQueries ==
    {[condition1 |-> c1, condition2 |-> Condition("author", <<"s", "m", "i", "t", "h">>),
      logic |-> logic, case_sensitive |-> FALSE, use_regex |-> FALSE] :
        c1 \in {Condition("title", <<"l", "o", "v", "e">>)}, logic \in {"AND", "OR"}}
    \cup
    {[condition1 |-> c1, logic |-> "AND", case_sensitive |-> cs, use_regex |-> re] :
        c1 \in {Condition("title", <<"L", "o", "v", "e">>),
                Condition("title", <<"(", "x">>)},
        cs \in BOOLEAN, re \in BOOLEAN}

\* rows to sort: websigns "100", "20", "x101" and "ox", the progress values
\* 50, 0, 100 and 25, the three statuses and an unknown one, titles that
\* differ in case only
SortListLen == 4
SortRows ==
    {[websign |-> T100, progress |-> 50, read_status |-> "reading", title |-> <<"X">>],
     [websign |-> <<"2", "0">>, progress |-> 0, read_status |-> "unread",
      title |-> <<"l", "o">>],
     [websign |-> <<"x", "1", "0", "1">>, progress |-> 100, read_status |-> "completed",
      title |-> <<"L", "o">>],
     [websign |-> <<"o", "x">>, progress |-> 25, read_status |-> "dropped",
      title |-> <<"o", "x">>]}
SortLists ==
    {l \in [1..SortListLen -> SortRows] :
        \A i, j \in 1..SortListLen : i # j => l[i] # l[j]}
AllSortColumns == {"websign", "progress", "read_status", "title"}

\* viewports, scroll positions and models for the window arithmetic
MaxWindowRows == 12
\* the largest rowCount() the window is computed for: more than the pool holds
ManyRows == 64
\* WidgetPool(main_window, max_size=50) in ComicCardDelegate.__init__
pool_capacity == 50
ViewportWidths == {0, 155, 600, 1920}
ViewportHeights == {0, 530}
ScrollOffsets == {0, 310, 795}
WindowLists ==
    {[i \in 1..n |-> IF i % 2 = 1 THEN Rec(T100, TLove, <<"a">>, "reading", 50)
                                  ELSE Rec(T101, TX, <<>>, "unread", 0)] :
        n \in {1, 4, MaxWindowRows}}
\* the three geometry-save timers
Timers == {"save_column_timer", "save_table_timer", "save_state_timer"}
\* events counted in one burst, and saves counted per timer
MaxBurst == 2
MaxSaves == 2
\* WebController.tag_fetch_thread before update_tag_for_row
NoThread == [running |-> FALSE, rows |-> <<>>, i |-> 0, is_batch |-> FALSE]
\* the rows selected for update_tag_for_row: one row, or two for a batch
MaxTagRows == 2
TagRowLists ==
    {l \in UNION {[1..n -> 0..(Len(_visible_rows) - 1)] : n \in 1..MaxTagRows} :
        \A i, j \in 1..Len(l) : i # j => l[i] # l[j]}
\* what fetch_tags_from_url can return
FetchedTags == {<<>>, <<"a">>}

\* the visible rows a batch update names, in range or not
BatchRows == (SUBSET (0..MaxRows)) \ {{}}

\* the lists handed to load_from_list: neighbours differ
LoadLists ==
    {l \in [1..MaxListLen -> InsertDicts] :
        \A i \in 1..(MaxListLen - 1) : l[i] # l[i + 1]}
\* the windows the viewport arithmetic of update_visible_items can give:
\* max(0, ..) .. min(rowCount - 1, ..)
Windows ==
    {win \in (0..(Len(_visible_rows) - 1)) \X (0..(Len(_visible_rows) - 1)) :
        win[1] <= win[2]}
ProgressInputs == {100}
Roles == {"DisplayRole", "UserRole"}
VisibleRows == 0..(Len(_visible_rows) - 1)

\* ------------------------------------------------------------------- Init
Init ==
    /\ _raw_data = <<>>
    /\ _row_count = 0
    /\ _visible_rows = <<>>
    /\ _filter_active = FALSE
    /\ _filters = EmptyDict
    /\ _text_filter_options = EmptyDict
    /\ _text_filter_active = FALSE
    /\ _custom_filter = EmptyDict
    /\ _custom_filter_active = FALSE
    /\ _row_styles = {}
    /\ _display_cache = EmptyDict
    /\ websign_tracker = EmptyDict
    /\ rebuild_pending = FALSE
    /\ next_rid = 0
    /\ removed = {}
    /\ sort_states = EmptyDict
    /\ current_sort_column = NoColumn
    /\ connected = FALSE
    /\ received = <<>>
    /\ _visible_widgets = <<>>
    /\ widget_pool = WidgetPool
    /\ import_lines = -1
    /\ prompt_shown = FALSE
    /\ yes_to_all_answered = FALSE
    /\ viewport_width = 600
    /\ viewport_height = 530
    /\ scroll_y = 0
    /\ window = NoWindow
    /\ save_column_timer = "idle"
    /\ save_table_timer = "idle"
    /\ save_state_timer = "missing"
    /\ unsaved = [t \in Timers |-> 0]
    /\ saves = [t \in Timers |-> 0]
    /\ tag_fetch_thread = NoThread
    /\ posted = <<>>
    /\ table_calls = {}

\* ---------------------------------------------------------------- actions
controller_vars == <<_row_styles, websign_tracker, rebuild_pending>>

AddRow ==
    /\ Len(_raw_data) < MaxRows
    /\ \E d \in InsertDicts : add_row(d) /\ Deliver(add_row_signals(d))
    /\ UNCHANGED <<filter_vars, controller_vars, removed>>
    /\ UNCHANGED header_vars
    /\ UNCHANGED import_vars
    /\ UNCHANGED shell_vars

\* add_row of a record that names its file, as the controller builds it for
\* an imported line
AddRowWithPath ==
    /\ Len(_raw_data) < MaxRows
    /\ \E d \in PathDicts : add_row(d) /\ Deliver(add_row_signals(d))
    /\ UNCHANGED <<filter_vars, controller_vars, removed>>
    /\ UNCHANGED header_vars
    /\ UNCHANGED import_vars
    /\ UNCHANGED shell_vars

AddRows ==
    /\ Len(_raw_data) + 2 <= MaxRows
    /\ \E d1 \in InsertDicts, d2 \in InsertDicts : add_rows(<<d1, d2>>)
    /\ UNCHANGED <<filter_vars, controller_vars, removed>>
    /\ UNCHANGED header_vars
    /\ Unobserved
    /\ UNCHANGED import_vars
    /\ UNCHANGED shell_vars

RemoveRow ==
    /\ \E row \in VisibleRows : remove_row(row) /\ Deliver(remove_row_signals(row))
    /\ UNCHANGED <<filter_vars, controller_vars, next_rid>>
    /\ UNCHANGED header_vars
    /\ UNCHANGED import_vars
    /\ UNCHANGED shell_vars

Sort ==
    /\ \E column \in SortColumns, reverse \in BOOLEAN : sort(column, reverse)
    /\ UNCHANGED <<filter_vars, controller_vars, next_rid, removed>>
    /\ UNCHANGED header_vars
    /\ Deliver(sort_signals)
    /\ UNCHANGED import_vars
    /\ UNCHANGED shell_vars

SetStatusFilter ==
    /\ \E status \in StatusFilters : set_status_filter(status)
    /\ UNCHANGED <<_display_cache, controller_vars, next_rid, removed>>
    /\ UNCHANGED header_vars
    /\ Deliver(_apply_filters_signals(Len(_visible_rows), Len(_visible_rows')))
    /\ UNCHANGED import_vars
    /\ UNCHANGED shell_vars

SetTagFilter ==
    /\ \E tags \in TagFilters : set_tag_filter(tags)
    /\ UNCHANGED <<_display_cache, controller_vars, next_rid, removed>>
    /\ UNCHANGED header_vars
    /\ Deliver(_apply_filters_signals(Len(_visible_rows), Len(_visible_rows')))
    /\ UNCHANGED import_vars
    /\ UNCHANGED shell_vars

ClearFilters ==
    /\ clear_filters
    /\ UNCHANGED <<_display_cache, controller_vars, next_rid, removed>>
    /\ UNCHANGED header_vars
    /\ Deliver(_apply_filters_signals(Len(_visible_rows), Len(_visible_rows')))
    /\ UNCHANGED import_vars
    /\ UNCHANGED shell_vars

ApplyTextFilter ==
    /\ \E options \in TextFilters : apply_text_filter(options)
    /\ UNCHANGED <<_display_cache, controller_vars, next_rid, removed>>
    /\ UNCHANGED header_vars
    /\ Deliver(_rebuild_visible_rows_signals)
    /\ UNCHANGED import_vars
    /\ UNCHANGED shell_vars

ClearTextFilter ==
    /\ clear_text_filter
    /\ UNCHANGED <<_display_cache, controller_vars, next_rid, removed>>
    /\ UNCHANGED header_vars
    /\ Deliver(_rebuild_visible_rows_signals)
    /\ UNCHANGED import_vars
    /\ UNCHANGED shell_vars

ApplyAdvancedFilter ==
    /\ \E f \in CustomFilters : apply_advanced_filter(f)
    /\ UNCHANGED <<_display_cache, controller_vars, next_rid, removed>>
    /\ UNCHANGED header_vars
    /\ Deliver(_rebuild_visible_rows_signals)
    /\ UNCHANGED import_vars
    /\ UNCHANGED shell_vars

ClearAdvancedFilter ==
    /\ clear_advanced_filter
    /\ UNCHANGED <<_display_cache, controller_vars, next_rid, removed>>
    /\ UNCHANGED header_vars
    /\ Deliver(_rebuild_visible_rows_signals)
    /\ UNCHANGED import_vars
    /\ UNCHANGED shell_vars

ClearAllData ==
    /\ clear_all_data
    /\ UNCHANGED controller_vars
    /\ UNCHANGED header_vars
    /\ Deliver(clear_all_data_signals)
    /\ UNCHANGED import_vars
    /\ UNCHANGED shell_vars

UpdateRow ==
    /\ \E row \in VisibleRows, d \in EditDicts :
          /\ update_row(row, d)
          /\ UNCHANGED <<_row_count, _visible_rows, _filter_active>>
          /\ Deliver(dataChanged_signals(row))
    /\ UNCHANGED <<filter_vars, controller_vars, next_rid, removed>>
    /\ UNCHANGED header_vars
    /\ UNCHANGED import_vars
    /\ UNCHANGED shell_vars

SetData ==
    /\ \E row \in VisibleRows :
          \E p \in ProgressInputs :
             /\ setData(row, "progress", p)
             /\ UNCHANGED <<_row_count, _visible_rows, _filter_active>>
             /\ Deliver(dataChanged_signals(row))
    /\ UNCHANGED <<filter_vars, controller_vars, next_rid, removed>>
    /\ UNCHANGED header_vars
    /\ UNCHANGED import_vars
    /\ UNCHANGED shell_vars

BatchUpdateRows ==
    /\ \E rows \in BatchRows, d \in InsertDicts :
          batch_update_rows([r \in rows |-> d])
    /\ UNCHANGED <<_row_count, _visible_rows, _filter_active, filter_vars,
                   controller_vars, next_rid, removed>>
    /\ UNCHANGED header_vars
    /\ Unobserved
    /\ UNCHANGED import_vars
    /\ UNCHANGED shell_vars

UpdateProgress ==
    /\ \E rows \in (SUBSET VisibleRows) \ {{}}, p \in {50, 120} :
          update_progress(rows, p)
    /\ UNCHANGED <<_row_count, _visible_rows, _filter_active, filter_vars,
                   controller_vars, next_rid, removed>>
    /\ UNCHANGED header_vars
    /\ Unobserved
    /\ UNCHANGED import_vars
    /\ UNCHANGED shell_vars

Data ==
    /\ \E row \in VisibleRows, col \in {"progress"}, role \in Roles :
          data(row, col, role)
    /\ UNCHANGED <<store_vars, filter_vars, controller_vars, next_rid, removed>>
    /\ UNCHANGED header_vars
    /\ Unobserved
    /\ UNCHANGED import_vars
    /\ UNCHANGED shell_vars

AddToTable ==
    /\ Len(_raw_data) < MaxTableRows
    /\ \E d \in InsertDicts, response \in {"Yes", "No"} : add_to_table(d, response)
    /\ UNCHANGED <<filter_vars, rebuild_pending, removed>>
    /\ UNCHANGED header_vars
    /\ Unobserved
    /\ UNCHANGED import_vars
    /\ UNCHANGED shell_vars

\* MainWindow.clear_table: after the confirmation, VirtualTableView.clear,
\* which is clear_all_data of the model; the controller is not told
ClearTable ==
    /\ \A w \in DOMAIN websign_tracker : Len(websign_tracker[w]) < MaxTracked
    /\ \E reply \in {"Yes", "No"} :
          IF reply = "Yes"
          THEN clear_all_data
          ELSE UNCHANGED <<store_vars, filter_vars, _display_cache, next_rid, removed>>
    /\ UNCHANGED controller_vars
    /\ UNCHANGED header_vars
    /\ Unobserved
    /\ UNCHANGED import_vars
    /\ UNCHANGED shell_vars

DeleteRows ==
    /\ \E rows \in (SUBSET VisibleRows) \ {{}}, reply \in {"Yes", "No"} :
          delete_rows(rows, reply)
    /\ UNCHANGED <<_raw_data, _row_count, _filter_active, filter_vars, _row_styles,
                   websign_tracker, next_rid>>
    /\ UNCHANGED header_vars
    /\ Unobserved
    /\ UNCHANGED import_vars
    /\ UNCHANGED shell_vars

UpdateRowData ==
    /\ \E row \in VisibleRows, d \in EditDicts : update_row_data(row, d)
    /\ UNCHANGED <<_row_count, _visible_rows, _filter_active, filter_vars,
                   rebuild_pending, next_rid, removed>>
    /\ UNCHANGED header_vars
    /\ Unobserved
    /\ UNCHANGED import_vars
    /\ UNCHANGED shell_vars

OnHeaderClicked ==
    /\ \E logical_index \in SortColumns : on_header_clicked(logical_index)
    /\ UNCHANGED <<filter_vars, controller_vars, next_rid, removed>>
    /\ Deliver(sort_signals)
    /\ UNCHANGED import_vars
    /\ UNCHANGED shell_vars

ClearAllSorting ==
    /\ clear_all_sorting
    /\ UNCHANGED <<filter_vars, controller_vars, next_rid, removed>>
    /\ Deliver(sort_signals)
    /\ UNCHANGED import_vars
    /\ UNCHANGED shell_vars

\* MainWindow.__init__, step 4: VirtualGridView(self), whose delegate connects
\* its slots, then set_main_window_model(): setModel and the grid's slots
SetMainWindowModel ==
    /\ ~connected
    /\ connected' = TRUE
    /\ LET g == _clear_all_widgets(Grid(_visible_widgets, widget_pool))
       IN  /\ _visible_widgets' = g._visible_widgets
           /\ widget_pool' = g.pool
    /\ UNCHANGED <<received, store_vars, filter_vars, controller_vars,
                   _display_cache, next_rid, removed, header_vars, import_vars>>
    /\ UNCHANGED shell_vars

LoadFromList ==
    /\ \E data_list \in LoadLists : load_from_list(data_list)
    /\ Deliver(load_from_list_signals(Len(_visible_rows')))
    /\ UNCHANGED <<controller_vars, header_vars, import_vars>>
    /\ UNCHANGED shell_vars

LoadTextRows ==
    /\ \E data_list \in TextLists : load_from_list(data_list)
    /\ Deliver(load_from_list_signals(Len(_visible_rows')))
    /\ UNCHANGED <<controller_vars, header_vars, import_vars>>
    /\ UNCHANGED shell_vars

ApplyTextQuery ==
    /\ \E options \in TextQueries : apply_text_filter(options)
    /\ UNCHANGED <<_display_cache, controller_vars, next_rid, removed>>
    /\ UNCHANGED header_vars
    /\ Deliver(_rebuild_visible_rows_signals)
    /\ UNCHANGED import_vars
    /\ UNCHANGED shell_vars

LoadSortRows ==
    /\ \E data_list \in SortLists : load_from_list(data_list)
    /\ Deliver(load_from_list_signals(Len(_visible_rows')))
    /\ UNCHANGED <<controller_vars, header_vars, import_vars>>
    /\ UNCHANGED shell_vars

SortAnyColumn ==
    /\ \E column \in AllSortColumns, reverse \in BOOLEAN : sort(column, reverse)
    /\ UNCHANGED <<filter_vars, controller_vars, next_rid, removed>>
    /\ UNCHANGED header_vars
    /\ Deliver(sort_signals)
    /\ UNCHANGED import_vars
    /\ UNCHANGED shell_vars

\* VirtualGridView.update_visible_items, run by the single-shot timers the
\* slots start and by scrolling and resizing
UpdateVisibleItems ==
    /\ connected
    /\ \E win \in Windows \cup {<<0, -1>>} :
          /\ win = <<0, -1>> <=> Len(_visible_rows) = 0
          /\ LET g == update_visible_items(Grid(_visible_widgets, widget_pool),
                                           win[1], win[2], _raw_data, _visible_rows)
             IN  /\ _visible_widgets' = g._visible_widgets
                 /\ widget_pool' = g.pool
    /\ UNCHANGED <<connected, received, store_vars, filter_vars, controller_vars,
                   _display_cache, next_rid, removed, header_vars, import_vars>>
    /\ UNCHANGED shell_vars

LoadWindowRows ==
    /\ \E data_list \in WindowLists : load_from_list(data_list)
    /\ Deliver(load_from_list_signals(Len(_visible_rows')))
    /\ UNCHANGED <<controller_vars, header_vars, import_vars>>
    /\ UNCHANGED shell_vars

\* VirtualGridView.resizeEvent: the viewport takes its new size
ResizeViewport ==
    /\ connected
    /\ \E w \in ViewportWidths, h \in ViewportHeights :
          /\ viewport_width' = w
          /\ viewport_height' = h
    /\ UNCHANGED <<scroll_y, window, timer_vars, thread_vars>>
    /\ UNCHANGED <<grid_vars, store_vars, filter_vars, controller_vars, _display_cache,
                   next_rid, removed, header_vars, import_vars>>

\* the vertical scroll bar takes a new value
ScrollTo ==
    /\ connected
    /\ \E y \in ScrollOffsets : scroll_y' = y
    /\ UNCHANGED <<viewport_width, viewport_height, window, timer_vars, thread_vars>>
    /\ UNCHANGED <<grid_vars, store_vars, filter_vars, controller_vars, _display_cache,
                   next_rid, removed, header_vars, import_vars>>

\* VirtualGridView.update_visible_items, run by the single-shot timers of
\* resizeEvent, scrollContentsBy and on_scroll, with the window the viewport
\* gives
UpdateVisibleItemsInViewport ==
    /\ connected
    /\ LET rowCount == Len(_visible_rows)
           w == update_visible_items_window(viewport_width, viewport_height, scroll_y,
                                            rowCount)
           g == update_visible_items(Grid(_visible_widgets, widget_pool),
                                     w.start_row, w.end_row, _raw_data, _visible_rows)
       IN  /\ _visible_widgets' = g._visible_widgets
           /\ widget_pool' = g.pool
           /\ window' = IF rowCount = 0 THEN window ELSE w
    /\ UNCHANGED <<viewport_width, viewport_height, scroll_y, timer_vars, thread_vars>>
    /\ UNCHANGED <<connected, received, store_vars, filter_vars, controller_vars,
                   _display_cache, next_rid, removed, header_vars, import_vars>>

\* QTimer.start(500) on a single-shot timer: started, or restarted when active
start(timer) == "pending"

\* one more event of a burst on timer t
Event(t) ==
    /\ unsaved[t] < MaxBurst
    /\ saves[t] < MaxSaves
    /\ unsaved' = [unsaved EXCEPT ![t] = @ + 1]
    /\ UNCHANGED saves

\* the slot of timer t has saved
Saved(t) ==
    /\ saves' = [saves EXCEPT ![t] = @ + 1]
    /\ unsaved' = [unsaved EXCEPT ![t] = 0]

\* StateManager.on_column_moved: __init__ built the timer
on_column_moved ==
    /\ Event("save_column_timer")
    /\ save_column_timer' = start(save_column_timer)
    /\ UNCHANGED <<save_table_timer, save_state_timer>>
    /\ UNCHANGED <<viewport_vars, thread_vars>>
    /\ UNCHANGED <<grid_vars, store_vars, filter_vars, controller_vars, _display_cache,
                   next_rid, removed, header_vars, import_vars>>

\* StateManager.on_column_resized: __init__ built the timer
on_column_resized ==
    /\ Event("save_table_timer")
    /\ save_table_timer' = start(save_table_timer)
    /\ UNCHANGED <<save_column_timer, save_state_timer>>
    /\ UNCHANGED <<viewport_vars, thread_vars>>
    /\ UNCHANGED <<grid_vars, store_vars, filter_vars, controller_vars, _display_cache,
                   next_rid, removed, header_vars, import_vars>>

\* MainWindow.resizeEvent: the first event finds no save_state_timer and
\* builds one without starting it
resizeEvent ==
    /\ Event("save_state_timer")
    /\ save_state_timer' = IF save_state_timer # "missing"
                           THEN start(save_state_timer)
                           ELSE "idle"
    /\ UNCHANGED <<save_column_timer, save_table_timer>>
    /\ UNCHANGED <<viewport_vars, thread_vars>>
    /\ UNCHANGED <<grid_vars, store_vars, filter_vars, controller_vars, _display_cache,
                   next_rid, removed, header_vars, import_vars>>

\* save_column_timer.timeout: StateManager.save_column_config
save_column_config ==
    /\ save_column_timer = "pending"
    /\ save_column_timer' = "idle"
    /\ Saved("save_column_timer")
    /\ UNCHANGED <<save_table_timer, save_state_timer>>
    /\ UNCHANGED <<viewport_vars, thread_vars>>
    /\ UNCHANGED <<grid_vars, store_vars, filter_vars, controller_vars, _display_cache,
                   next_rid, removed, header_vars, import_vars>>

\* save_table_timer.timeout: StateManager.save_table_geometry
save_table_geometry ==
    /\ save_table_timer = "pending"
    /\ save_table_timer' = "idle"
    /\ Saved("save_table_timer")
    /\ UNCHANGED <<save_column_timer, save_state_timer>>
    /\ UNCHANGED <<viewport_vars, thread_vars>>
    /\ UNCHANGED <<grid_vars, store_vars, filter_vars, controller_vars, _display_cache,
                   next_rid, removed, header_vars, import_vars>>

\* save_state_timer.timeout: StateManager.save_window_state
save_window_state ==
    /\ save_state_timer = "pending"
    /\ save_state_timer' = "idle"
    /\ Saved("save_state_timer")
    /\ UNCHANGED <<save_column_timer, save_table_timer>>
    /\ UNCHANGED <<viewport_vars, thread_vars>>
    /\ UNCHANGED <<grid_vars, store_vars, filter_vars, controller_vars, _display_cache,
                   next_rid, removed, header_vars, import_vars>>

\* VirtualTableView.item: the compatibility method returns None
item(row, column) == None

\* WebController.update_tag_for_row on the UI thread: the progress dialog of
\* a single row reads the row's websign through get_websign_from_row, then
\* the TagFetchThread is built and started
UpdateTagForRow ==
    /\ ~tag_fetch_thread.running
    /\ posted = <<>>
    /\ \E rows \in TagRowLists :
          LET is_batch == Len(rows) > 1
          IN  /\ tag_fetch_thread' =
                    [running |-> TRUE, rows |-> rows, i |-> 0, is_batch |-> is_batch]
              /\ table_calls' = IF is_batch THEN table_calls
                                ELSE table_calls \cup {<<"ui", "item">>}
    /\ UNCHANGED <<posted, viewport_vars, timer_vars>>
    /\ UNCHANGED <<grid_vars, store_vars, filter_vars, controller_vars, _display_cache,
                   next_rid, removed, header_vars, import_vars>>

\* TagFetchThread.run on the worker thread, one pass of its loop: the row's
\* websign is asked of main_window.table; without an item the row is
\* skipped, else the tags are fetched and, in a batch, written with
\* table.setItem, or sent with single_finished; after the last row a batch
\* emits batch_finished. Without a configured website run emits error.
TagFetchThreadRun ==
    /\ tag_fetch_thread.running
    /\ \E configured \in BOOLEAN, tags \in FetchedTags :
          LET t == tag_fetch_thread
          IN  IF t.i = 0 /\ ~configured
              THEN /\ posted' = Append(posted, [signal |-> "error"])
                   /\ tag_fetch_thread' = [t EXCEPT !.running = FALSE]
                   /\ UNCHANGED table_calls
              ELSE IF t.i < Len(t.rows)
              THEN LET row == t.rows[t.i + 1]
                       websign_item == item(row, 0)
                   IN  /\ tag_fetch_thread' = [t EXCEPT !.i = @ + 1]
                       /\ IF websign_item = None
                          THEN /\ table_calls' = table_calls \cup {<<"worker", "item">>}
                               /\ UNCHANGED posted
                          ELSE IF t.is_batch
                          THEN /\ table_calls' =
                                    table_calls \cup
                                    ({<<"worker", "item">>} \cup
                                     (IF tags # <<>> THEN {<<"worker", "setItem">>}
                                      ELSE {}))
                               /\ posted' = Append(posted, [signal |-> "progress_updated"])
                          ELSE /\ table_calls' = table_calls \cup {<<"worker", "item">>}
                               /\ posted' =
                                    posted \o
                                    <<[signal |-> "single_finished"],
                                      [signal |-> "progress_updated"]>>
              ELSE /\ tag_fetch_thread' = [t EXCEPT !.running = FALSE]
                   /\ posted' = IF t.is_batch
                                THEN Append(posted, [signal |-> "batch_finished"])
                                ELSE posted
                   /\ UNCHANGED table_calls
    /\ UNCHANGED <<viewport_vars, timer_vars>>
    /\ UNCHANGED <<grid_vars, store_vars, filter_vars, controller_vars, _display_cache,
                   next_rid, removed, header_vars, import_vars>>

\* the UI thread's event loop runs the slot of the oldest queued signal:
\* on_single_tag_finished writes with table.setItem and reads the websign
\* back for its message box; on_batch_tags_finished, on_tag_fetch_error and
\* the progress dialog leave the table alone
HandlePostedSignal ==
    /\ posted # <<>>
    /\ posted' = Tail(posted)
    /\ table_calls' = IF Head(posted).signal = "single_finished"
                      THEN table_calls \cup {<<"ui", "setItem">>, <<"ui", "item">>}
                      ELSE table_calls
    /\ UNCHANGED <<tag_fetch_thread, viewport_vars, timer_vars>>
    /\ UNCHANGED <<grid_vars, store_vars, filter_vars, controller_vars, _display_cache,
                   next_rid, removed, header_vars, import_vars>>

\* one QTimer.singleShot(10, self.load_cover_image) of one card fires
LoadCoverImage ==
    /\ \E widget \in 1..Len(widget_pool.widgets), found \in BOOLEAN :
          /\ widget_pool.widgets[widget].load_timers > 0
          /\ widget_pool' =
                [widget_pool EXCEPT !.widgets[widget] =
                    load_cover_image(@, _raw_data, _visible_rows, found)]
    /\ UNCHANGED <<connected, received, _visible_widgets, store_vars, filter_vars,
                   controller_vars, _display_cache, next_rid, removed, header_vars,
                   import_vars>>
    /\ UNCHANGED shell_vars

\* FileIO.import_from_txt reads the file: the loop over its lines begins
StartImport ==
    /\ import_lines = -1
    /\ \E n \in 1..MaxImportLines : import_lines' = n
    /\ prompt_shown' = FALSE
    /\ yes_to_all_answered' = FALSE
    /\ UNCHANGED <<store_vars, filter_vars, controller_vars, _display_cache,
                   next_rid, removed, header_vars>>
    /\ Unobserved
    /\ UNCHANGED shell_vars

\* one pass of the loop: add_to_table for the parsed line.  The prompt is
\* shown exactly when the websign is in the tracker
ImportLine ==
    /\ import_lines > 0
    /\ Len(_raw_data) < MaxTableRows
    /\ \E d \in InsertDicts, response \in {"Yes", "No", "YesToAll"} :
          LET duplicate == d["websign"] # TEmpty
                           /\ d["websign"] \in DOMAIN websign_tracker
          IN  /\ add_to_table(d, response)
              /\ prompt_shown' = duplicate
              /\ yes_to_all_answered' =
                    (yes_to_all_answered \/ (duplicate /\ response = "YesToAll"))
    /\ import_lines' = import_lines - 1
    /\ UNCHANGED <<filter_vars, rebuild_pending, removed, header_vars>>
    /\ Unobserved
    /\ UNCHANGED shell_vars

\* the loop is over: the import summary
FinishImport ==
    /\ import_lines = 0
    /\ import_lines' = -1
    /\ UNCHANGED <<prompt_shown, yes_to_all_answered, store_vars, filter_vars,
                   controller_vars, _display_cache, next_rid, removed, header_vars>>
    /\ Unobserved
    /\ UNCHANGED shell_vars

\* the store's own interface
NextStore ==
    \/ AddRow \/ AddRows \/ RemoveRow \/ Sort
    \/ SetStatusFilter \/ SetTagFilter \/ ClearFilters
    \/ ApplyTextFilter \/ ClearTextFilter
    \/ ApplyAdvancedFilter \/ ClearAdvancedFilter
    \/ ClearAllData \/ UpdateRow \/ SetData \/ BatchUpdateRows \/ UpdateProgress

Spec == Init /\ [][NextStore]_vars

\* the table as the controllers drive it
NextTable ==
    \/ AddToTable \/ DeleteRows \/ UpdateRowData
    \/ Sort \/ SetStatusFilter

SpecTable == Init /\ [][NextTable]_vars

\* the table filled through the controller and cleared from the menu
NextClear == AddToTable \/ ClearTable

SpecClear == Init /\ [][NextClear]_vars

\* reads through the display cache between mutations
NextCache ==
    \/ Data \/ AddRow \/ AddRows \/ RemoveRow \/ UpdateRow \/ SetData
    \/ BatchUpdateRows \/ UpdateProgress \/ Sort \/ SetStatusFilter \/ ClearAllData

SpecCache == Init /\ [][NextCache]_vars

\* the table view's header over a store that is filled, filtered and edited
NextHeader ==
    \/ OnHeaderClicked \/ ClearAllSorting
    \/ AddRow \/ AddRowWithPath \/ RemoveRow \/ SetStatusFilter \/ UpdateRow

SpecHeader == Init /\ [][NextHeader]_vars

\* the grid view attached to the model
NextGrid ==
    \/ SetMainWindowModel \/ LoadFromList \/ UpdateVisibleItems \/ LoadCoverImage
    \/ RemoveRow \/ SetStatusFilter \/ ApplyTextFilter

SpecGrid == Init /\ [][NextGrid]_vars

\* the model's operations as an attached observer sees them
NextNotify ==
    \/ SetMainWindowModel \/ AddRow \/ RemoveRow \/ Sort
    \/ SetStatusFilter \/ SetTagFilter \/ ClearFilters
    \/ ApplyTextFilter \/ ClearTextFilter
    \/ ApplyAdvancedFilter \/ ClearAdvancedFilter

SpecNotify == Init /\ [][NextNotify]_vars

\* text queries over loaded rows
NextText == LoadTextRows \/ ApplyTextQuery \/ ClearTextFilter

SpecText == Init /\ [][NextText]_vars

\* sorting loaded rows, with and without a status filter
NextSort == LoadSortRows \/ SortAnyColumn \/ SetStatusFilter

SpecSort == Init /\ [][NextSort]_vars

\* the grid view's window under resizing and scrolling
NextWindow ==
    \/ SetMainWindowModel
    \/ LoadWindowRows
    \/ ResizeViewport
    \/ ScrollTo
    \/ UpdateVisibleItemsInViewport

SpecWindow == Init /\ [][NextWindow]_vars

\* the debounced geometry saves
NextTimers ==
    \/ on_column_moved
    \/ on_column_resized
    \/ resizeEvent
    \/ save_column_config
    \/ save_table_geometry
    \/ save_window_state

SpecTimers == Init /\ [][NextTimers]_vars

\* tag fetching: the worker thread beside the UI thread
NextThreads ==
    \/ LoadFromList
    \/ RemoveRow
    \/ UpdateTagForRow
    \/ TagFetchThreadRun
    \/ HandlePostedSignal

SpecThreads == Init /\ [][NextThreads]_vars

\* a file import
NextImport == StartImport \/ ImportLine \/ FinishImport

SpecImport == Init /\ [][NextImport]_vars


\* ----------------------------------------------------------------- claims
\* the live logical indices: records remove_row never acted on
Live == {i \in 0..(Len(_raw_data) - 1) : Raw(_raw_data, i).rid \notin removed}

PassesFilters(t) ==
    _should_row_be_visible(t, _filters, _text_filter_active, _text_filter_options,
                           _custom_filter_active, _custom_filter)

NoRepeats(seq) == \A i, j \in 1..Len(seq) : seq[i] = seq[j] => i = j

\* C1: in every reachable state the visible-index sequence has no repeated
\* entry and is a permutation of the live logical indices whose records
\* pass all active filter categories.
C1_VisibleIsFilteredLive ==
    /\ NoRepeats(_visible_rows)
    /\ Range(_visible_rows) = {i \in Live : PassesFilters(Raw(_raw_data, i))}

\* C2: a record remove_row acted on is absent from the visible sequence in
\* every later state, whatever recomputed the sequence in between.
C2_RemovedStaysAbsent ==
    \A v \in 1..Len(_visible_rows) :
        Raw(_raw_data, _visible_rows[v]).rid \notin removed

\* C3: a step of add_row or add_rows appends the records to storage and
\* appends to the visible sequence exactly the new logical indices whose
\* records pass the active filters; a failing record leaves it unchanged.
C3_AppendTimeVisibility ==
    [][(AddRow \/ AddRows) =>
         LET n == Len(_raw_data)
             m == Len(_raw_data')
             passing == SelectSeq([i \in 1..(m - n) |-> n + i - 1],
                                  LAMBDA idx : PassesFilters(Raw(_raw_data', idx)))
         IN  /\ m > n
             /\ SubSeq(_raw_data', 1, n) = _raw_data
             /\ _visible_rows' = _visible_rows \o passing]_vars

\* C4: no step moves a record to another logical index: a record stored at
\* index i before a step and still stored after it is still at index i.
C4_LogicalIndexStable ==
    [][\A i \in 1..Len(_raw_data) : \A j \in 1..Len(_raw_data') :
          _raw_data[i].rid = _raw_data'[j].rid => i = j]_vars

\* the value a read computes directly from the stored tuple
DirectValue(key) ==
    _process_data(_get_raw_value(_raw_data, key[1], key[2]), key[2], key[3])

\* C5: every read answered through the display cache equals the value
\* computed directly from the record stored at that visible index, and every
\* cache entry, also of a row hidden at the moment, equals the value computed
\* from its tuple: dropping the cache changes no read.
C5_CacheCoherent ==
    /\ \A key \in DOMAIN _display_cache :
          /\ key[1] \in 0..(Len(_raw_data) - 1)
          /\ _display_cache[key] = DirectValue(key)
    /\ \A row \in VisibleRows, role \in Roles :
          DataResult(row, "progress", role) = ComputedValue(row, "progress", role)

\* C5 witness: progress 100 is stored only by setData; the cache holds the
\* display value read after that update
C5_ReadAfterUpdate ==
    \E key \in DOMAIN _display_cache :
        /\ key[2] = "progress" /\ key[3] = "DisplayRole"
        /\ Raw(_raw_data, key[1]).progress = 100
        /\ _display_cache[key] = <<100, "%">>
        /\ \E other \in DOMAIN _display_cache : other[1] # key[1]

\* C6: after a step of update_row, setData or batch_update_rows every record
\* the step changed has the read_status its progress determines.
C6_StatusFollowsProgress ==
    [][(UpdateRow \/ SetData \/ BatchUpdateRows) =>
         \A i \in 1..Len(_raw_data') :
            _raw_data'[i] # _raw_data[i] =>
               _raw_data'[i].read_status = StatusOfProgress(_raw_data'[i].progress)]_vars

\* the visible rows that hold a live record with websign w
RowsWith(w) ==
    {v \in VisibleRows :
        /\ Raw(_raw_data, _visible_rows[v + 1]).websign = w
        /\ Raw(_raw_data, _visible_rows[v + 1]).rid \notin removed}

LiveWebsigns == {Raw(_raw_data, i).websign : i \in Live}
LiveCount(w) == Cardinality({i \in Live : Raw(_raw_data, i).websign = w})

\* C7: a websign is a key of the duplicate index iff at least two live
\* records have it, and its entry lists exactly the visible indices of those
\* records, each once.
C7_DuplicateIndexExact ==
    /\ DOMAIN websign_tracker = {w \in LiveWebsigns : LiveCount(w) >= 2}
    /\ \A w \in DOMAIN websign_tracker :
          /\ NoRepeats(websign_tracker[w])
          /\ Range(websign_tracker[w]) = RowsWith(w)

\* C8: an insert whose websign a live stored record already has is
\* recognized as a duplicate: the key's entry ends with the new visible
\* index and counts at least two, the new row is marked, the one earlier row
\* is marked with it when the count goes from 1 to 2, and no other row is
\* newly marked when the count was 2 or more.
C8_InsertRecognizedAsDuplicate ==
    [][(AddToTable /\ Len(_raw_data') = Len(_raw_data) + 1) =>
         LET w == _raw_data'[Len(_raw_data')].websign
             earlier == {i \in Live : Raw(_raw_data, i).websign = w}
             entry == websign_tracker'[w]
         IN  earlier # {} =>
               /\ w \in DOMAIN websign_tracker'
               /\ Len(entry) >= 2
               /\ entry[Len(entry)] = Len(_visible_rows') - 1
               /\ Len(_raw_data) \in _row_styles'
               /\ (Cardinality(earlier) = 1 => earlier \subseteq _row_styles')
               /\ (Cardinality(earlier) >= 2 =>
                      _row_styles' \ _row_styles \subseteq {Len(_raw_data)})]_vars

\* C9: every step that inserts a record or removes rows leaves the
\* single-shot rebuild timer armed.
C9_MutationSchedulesRebuild ==
    [][((AddToTable /\ Len(_raw_data') = Len(_raw_data) + 1)
        \/ (DeleteRows /\ _visible_rows' # _visible_rows)) =>
         rebuild_pending']_vars

\* the entries of the tracker that record a duplicate
DuplicatePart(tracker) ==
    [w \in {x \in DOMAIN tracker : Len(tracker[x]) > 1} |-> tracker[w]]

\* C10: when no rebuild is pending, so that no later step will repair it,
\* the duplicate index equals the map of duplicates recomputed from scratch.
C10_QuiescentIndexIsRebuilt ==
    ~rebuild_pending =>
        DuplicatePart(websign_tracker) = find_duplicates(_raw_data, _visible_rows)

\* the identities of the records a visible sequence shows
VisibleRecords(stored, visible) ==
    {Raw(stored, visible[v]).rid : v \in 1..Len(visible)}

\* C13: a step of sort, on any column in any direction, with or without an
\* active filter, leaves the set of visible records and the visible count
\* as they were; only the order may change.
C13_SortIsPermutation ==
    [][Sort =>
         /\ VisibleRecords(_raw_data', _visible_rows')
              = VisibleRecords(_raw_data, _visible_rows)
         /\ Len(_visible_rows') = Len(_visible_rows)]_vars

\* C19: for every visible index, in range or not, the result of remove_row,
\* update_row, setData and batch_update_rows tells a caller whether the call
\* took effect, and a call with an index outside 0..N-1 changes neither the
\* visible sequence nor the storage.
C19_FailureIsDistinguishable ==
    \A row \in (-1)..Len(_visible_rows) :
        LET in_range == row \in VisibleRows
            updates == (row :> [websign |-> T101])
        IN  /\ remove_row_result(row) = in_range
            /\ update_row_result(row) = in_range
            /\ setData_result(row, "progress") = in_range
            /\ batch_update_rows_result(updates) = in_range
            /\ ~in_range =>
                  /\ RemovedVisible(_visible_rows, row) = _visible_rows
                  /\ DOMAIN ActualUpdates(updates) = {}

\* the visible rows are in the order of the column's sort key
SortedOn(stored, visible, column, reverse) ==
    \A i, j \in 1..Len(visible) :
        i < j =>
            IF reverse
            THEN ~KeyLess(sort_key(stored, column, visible[i]),
                          sort_key(stored, column, visible[j]))
            ELSE ~KeyLess(sort_key(stored, column, visible[j]),
                          sort_key(stored, column, visible[i]))

\* C14: a sort request on the column of the previous request, or on a column
\* never requested before, moves that column's state one step along
\* none -> ascending -> descending -> none, and the visible rows are in
\* ascending order of the column when the state becomes ascending and in
\* descending order when it becomes descending.
C14_SortCycle ==
    [][\A c \in SortColumns :
          (OnHeaderClicked /\ on_header_clicked(c)
             /\ (current_sort_column = c \/ c \notin DOMAIN sort_states)) =>
             /\ SortState(sort_states, c) = "none" => SortState(sort_states', c) = "asc"
             /\ SortState(sort_states, c) = "asc" => SortState(sort_states', c) = "desc"
             /\ SortState(sort_states, c) = "desc" => SortState(sort_states', c) = "none"
             /\ SortState(sort_states', c) = "asc" =>
                   SortedOn(_raw_data', _visible_rows', c, FALSE)
             /\ SortState(sort_states', c) = "desc" =>
                   SortedOn(_raw_data', _visible_rows', c, TRUE)]_vars

\* C14 witness: a column went through the whole cycle, back to none, over
\* two visible records with different keys
C14_CycleCompleted ==
    \E c \in SortColumns :
        /\ c \in DOMAIN sort_states
        /\ sort_states[c] = "none"
        /\ current_sort_column = c
        /\ Len(_visible_rows) = 2
        /\ sort_key(_raw_data, c, _visible_rows[1]) # sort_key(_raw_data, c, _visible_rows[2])

\* C15: at most one column has a sort state other than none.
C15_OneSortedColumn ==
    Cardinality({c \in DOMAIN sort_states : sort_states[c] # "none"}) <= 1

\* the attached observer was sent, in the step, a signal of one of the kinds
Notified(kinds) == \E i \in 1..Len(received') : received'[i].sig \in kinds

\* C12: no operation changes the visible rows silently: while an observer is
\* attached, an insert that changes them sends rowsInserted, a remove
\* rowsRemoved, and a change or clear of a status, tag, text or advanced
\* filter and a sort send a reset (modelReset or layoutChanged)
C12_VisibleChangeIsNotified ==
    [][(connected /\ _visible_rows' # _visible_rows) =>
          /\ received' # <<>>
          /\ AddRow => Notified({"rowsInserted"})
          /\ RemoveRow => Notified({"rowsRemoved"})
          /\ (SetStatusFilter \/ SetTagFilter \/ ClearFilters \/ ApplyTextFilter
                \/ ClearTextFilter \/ ApplyAdvancedFilter \/ ClearAdvancedFilter
                \/ Sort) => Notified({"modelReset", "layoutChanged"})]_vars

\* C20: within one import, once a duplicate prompt was answered "Yes to All",
\* no later line of that import shows a duplicate prompt
C20_YesToAllSuppressesPrompts ==
    [][(ImportLine /\ yes_to_all_answered) => ~prompt_shown']_vars

\* the free list is empty and max_size cards are bound
PoolFull ==
    /\ widget_pool._available_widgets = <<>>
    /\ Len(widget_pool._in_use_widgets) = max_size

\* C17: the number of bound cards never exceeds max_size, and when the free
\* list is empty and max_size cards are bound, acquire_widget for a row that
\* has no card returns None and leaves the bound map and the free list as
\* they were
C17_CapacityIsRespected ==
    /\ Len(widget_pool._in_use_widgets) <= max_size
    /\ Cardinality(ODom(widget_pool._in_use_widgets)) = Len(widget_pool._in_use_widgets)
    /\ \A row \in VisibleRows :
          (PoolFull /\ row \notin ODom(widget_pool._in_use_widgets)) =>
              LET acquired == acquire_widget(widget_pool, row,
                                             get_row_data(_raw_data, _visible_rows, row))
              IN  /\ acquired.widget = None
                  /\ acquired.pool._in_use_widgets = widget_pool._in_use_widgets
                  /\ acquired.pool._available_widgets = widget_pool._available_widgets

\* the pool is exhausted while a visible row has no card
C17_PoolExhausted ==
    /\ PoolFull
    /\ \E row \in VisibleRows : row \notin ODom(widget_pool._in_use_widgets)
    /\ \E row \in VisibleRows : row \in ODom(_visible_widgets)

\* a card that displays nothing
Blank(w) ==
    /\ w.current_row = -1
    /\ w.title = <<>>
    /\ w.status = ""
    /\ w.cover = <<>>
    /\ w.is_selected = FALSE

FreeCards == Range(widget_pool._available_widgets)
BoundCards == {widget_pool._in_use_widgets[i].v : i \in 1..Len(widget_pool._in_use_widgets)}

\* release_widget from the present pool: a bound row is unbound, its card
\* blank and appended once to the free list; an unbound row changes nothing
ReleaseUnbindsAndClears ==
    \A row \in 0..(MaxListLen - 1) :
        LET released == release_widget(widget_pool, row)
        IN  IF row \in ODom(widget_pool._in_use_widgets)
            THEN LET w == OGet(widget_pool._in_use_widgets, row)
                 IN  /\ row \notin ODom(released._in_use_widgets)
                     /\ Blank(released.widgets[w])
                     /\ released._available_widgets =
                           Append(widget_pool._available_widgets, w)
            ELSE released = widget_pool

\* acquire_widget of a free card for a row: the card shows that row's data
\* and nothing else
AcquireShowsOnlyTheRow ==
    \A row \in VisibleRows :
        LET row_data == get_row_data(_raw_data, _visible_rows, row)
            acquired == acquire_widget(widget_pool, row, row_data)
        IN  (row \notin ODom(widget_pool._in_use_widgets) /\ acquired.widget # None) =>
                LET w == acquired.pool.widgets[acquired.widget]
                IN  /\ w.current_row = row
                    /\ w.title = TitleText(row_data["title"])
                    /\ w.status = StatusText(row_data["read_status"])
                    /\ w.cover = <<>>
                    /\ w.is_selected = FALSE

C16_WindowUpdateBindsExactlyTheWindow ==
    connected =>
        \A win \in Windows :
            win[2] - win[1] + 1 <= max_size =>
                LET g == update_visible_items(Grid(_visible_widgets, widget_pool),
                                              win[1], win[2], _raw_data, _visible_rows)
                IN  /\ ODom(g.pool._in_use_widgets) = win[1]..win[2]
                    /\ update_visible_items(g, win[1], win[2], _raw_data,
                                            _visible_rows) = g

\* every card the grid holds shows the record that is at its row
CardsShowTheirRows(visible_widgets, pool, stored, visible) ==
    \A i \in 1..Len(visible_widgets) :
        LET row_data == get_row_data(stored, visible, visible_widgets[i].k)
            w == pool.widgets[visible_widgets[i].v]
        IN  /\ row_data # EmptyDict
            /\ w.title = TitleText(row_data["title"])
            /\ w.status = StatusText(row_data["read_status"])

\* a step of one of the operations that change the filter state
FilterChange ==
    \/ SetStatusFilter \/ SetTagFilter \/ ClearFilters
    \/ ApplyTextFilter \/ ClearTextFilter
    \/ ApplyAdvancedFilter \/ ClearAdvancedFilter

\* C11: a change of the filter state reaches the attached grid as a full
\* reset, whether or not the number of visible rows changed, and after it no
\* card of a grid whose cards were up to date is left bound to a row while
\* showing a record that is not at that row
C11_FilterChangeResetsDependents ==
    [][(/\ connected
        /\ FilterChange
        /\ _visible_widgets # <<>>
        /\ CardsShowTheirRows(_visible_widgets, widget_pool,
                              _raw_data, _visible_rows)) =>
          /\ Notified({"modelReset"})
          /\ CardsShowTheirRows(_visible_widgets', widget_pool',
                                _raw_data', _visible_rows')]_vars

\* the four filter categories, each on its own: a category that is not set
\* lets every record pass
PassesStatus(t, f) == HasKey(f, "status") => t.read_status = f["status"]
PassesTags(t, f) == HasKey(f, "tags") => SplitTags(t.tag) \cap f["tags"] # {}
PassesText(t, tfa, tfo) == tfa => _is_row_in_text_filter(tfa, tfo, t)
PassesCustom(t, cfa, cf) == (cfa /\ cf # EmptyDict) => text_filter(cf, t)

\* the spec's example: statuses [unread, reading, reading, completed, unread]
StatusExample ==
    LET statuses == <<"unread", "reading", "reading", "completed", "unread">>
    IN  [i \in 1..5 |-> _dict_to_tuple([read_status |-> statuses[i]], i - 1)]

\* C21: after a filter rebuild a live record is visible exactly when it
\* passes the status, tag, text and custom category, the categories that are
\* not set imposing nothing; the example with status = reading gives the
\* visible indices 1 and 2
C21_VisibleIffPassesEveryCategory ==
    /\ [](RebuiltVisible(StatusExample, [status |-> "reading"], FALSE, EmptyDict,
                         FALSE, EmptyDict) = <<1, 2>>)
    /\ [][FilterChange =>
            \A i \in Live :
               (i \in Range(_visible_rows')) <=>
                  LET t == Raw(_raw_data, i)
                  IN  /\ PassesStatus(t, _filters')
                      /\ PassesTags(t, _filters')
                      /\ PassesText(t, _text_filter_active', _text_filter_options')
                      /\ PassesCustom(t, _custom_filter_active', _custom_filter')]_vars

\* a rebuild under a status and a tag filter left one live record visible and
\* another hidden
C21_FilteredByStatusAndTag ==
    /\ HasKey(_filters, "status") /\ HasKey(_filters, "tags")
    /\ _visible_rows = RebuiltVisible(_raw_data, _filters, _text_filter_active,
                                      _text_filter_options, _custom_filter_active,
                                      _custom_filter)
    /\ \E i, j \in Live : i \in Range(_visible_rows) /\ j \notin Range(_visible_rows)

\* one condition of a text query on a stored row, as plain substring search
\* (lower case on both sides unless case sensitive)
ConditionMatches(t, condition, case_sensitive) ==
    LET cell == IF condition.column = "title" THEN t.title ELSE t.author
    IN  IF case_sensitive THEN Contains(cell, condition.text)
        ELSE Contains(Lower(cell), Lower(condition.text))

\* what a text query lets pass: both conditions under AND, at least one under
\* OR, the one condition when there is only one
QueryMatches(t, options) ==
    LET m1 == ConditionMatches(t, options.condition1, options.case_sensitive)
    IN  IF HasKey(options, "condition2")
        THEN LET m2 == ConditionMatches(t, options.condition2, options.case_sensitive)
             IN  IF options.logic = "AND" THEN m1 /\ m2 ELSE m1 \/ m2
        ELSE m1

\* the spec's example query: title contains "love" or author contains "smith"
LoveOrSmith ==
    [condition1 |-> Condition("title", <<"l", "o", "v", "e">>),
     condition2 |-> Condition("author", <<"s", "m", "i", "t", "h">>),
     logic |-> "OR", case_sensitive |-> FALSE, use_regex |-> FALSE]

\* C22: under a text query a row is visible exactly when both conditions
\* match (AND), at least one matches (OR), or the single condition matches; a
\* pattern that is no valid regular expression is matched as a plain
\* substring; with title contains "love" OR author contains "smith", "A Love
\* Story" by "Jones" and "X" by "Smith" are visible and "Y" by "Doe" is hidden
C22_TextQueryLogic ==
    _text_filter_active =>
        /\ \A i \in 0..(Len(_raw_data) - 1) :
              (i \in Range(_visible_rows)) <=>
                  QueryMatches(Raw(_raw_data, i), _text_filter_options)
        /\ _text_filter_options = LoveOrSmith =>
              \A i \in 0..(Len(_raw_data) - 1) :
                 LET t == Raw(_raw_data, i)
                 IN  /\ (t.title = TLoveStory /\ t.author = TJones)
                           => i \in Range(_visible_rows)
                     /\ (t.title = <<"X">> /\ t.author = TSmith)
                           => i \in Range(_visible_rows)
                     /\ (t.title = <<"Y">> /\ t.author = TDoe)
                           => i \notin Range(_visible_rows)

\* the example query over the three example rows
C22_LoveOrSmithApplied ==
    /\ _text_filter_active
    /\ _text_filter_options = LoveOrSmith
    /\ Len(_raw_data) = 3
    /\ Raw(_raw_data, 0).title = TLoveStory
    /\ Raw(_raw_data, 1).title = <<"X">> /\ Raw(_raw_data, 1).author = TSmith
    /\ Raw(_raw_data, 2).title = <<"Y">>
    /\ _visible_rows = <<0, 1>>

\* an invalid pattern, "(x" with use_regex, found as a substring of "a(x"
C22_InvalidRegexMatched ==
    /\ _text_filter_active
    /\ _text_filter_options.use_regex
    /\ _text_filter_options.condition1.text = <<"(", "x">>
    /\ \E i \in Range(_visible_rows) : Raw(_raw_data, i).title = TParen
    /\ \E i \in 0..(Len(_raw_data) - 1) : i \notin Range(_visible_rows)

\* the type-aware key of a stored row: websign as an integer (else its first
\* run of digits, else 0), progress as an integer, read_status as an ordinal
\* (a missing status counts as unread), any other column as lower-case text
TypeAwareKey(t, column) ==
    CASE column = "websign" ->
           IF t.websign # <<>> /\ \A i \in 1..Len(t.websign) : IsDigit(t.websign[i])
           THEN <<DigitsValue(t.websign)>>
           ELSE <<DigitsValue(FirstDigitRun(t.websign))>>
      [] column = "progress" -> <<t.progress>>
      [] column = "read_status" ->
           CASE t.read_status \in {"", "unread"} -> <<0>>
             [] t.read_status = "reading" -> <<1>>
             [] t.read_status = "completed" -> <<2>>
             [] OTHER -> <<3>>
      [] OTHER -> [i \in 1..Len(t.title) |-> Ord(LowerChar(t.title[i]))]

\* the keys of the visible rows, in visible order
VisibleKeys(stored, visible, column) ==
    [i \in 1..Len(visible) |-> TypeAwareKey(Raw(stored, visible[i]), column)]

NonDecreasing(keys) == \A i \in 1..(Len(keys) - 1) : ~KeyLess(keys[i + 1], keys[i])
NonIncreasing(keys) == \A i \in 1..(Len(keys) - 1) : ~KeyLess(keys[i], keys[i + 1])
Reversed(s) == [i \in 1..Len(s) |-> s[Len(s) + 1 - i]]

\* C23: a sort leaves the visible rows non-decreasing in the column's
\* type-aware key when ascending and non-increasing when descending; the
\* progress values 50, 0, 100, 25 come out as 0, 25, 50, 100 ascending, and
\* with distinct numeric keys the descending order is the reverse of that
C23_SortOrdersByTypeAwareKey ==
    [][\A column \in AllSortColumns, reverse \in BOOLEAN :
          (sort(column, reverse) /\ UNCHANGED filter_vars) =>
             LET keys == VisibleKeys(_raw_data', _visible_rows', column)
             IN  /\ IF reverse THEN NonIncreasing(keys) ELSE NonDecreasing(keys)
                 /\ (column = "progress" /\ Len(_visible_rows') = SortListLen) =>
                       keys = IF reverse
                              THEN Reversed(<<<<0>>, <<25>>, <<50>>, <<100>>>>)
                              ELSE <<<<0>>, <<25>>, <<50>>, <<100>>>>
                 /\ (column = "websign" /\ Len(_visible_rows') = SortListLen) =>
                       keys = IF reverse
                              THEN Reversed(<<<<0>>, <<20>>, <<100>>, <<101>>>>)
                              ELSE <<<<0>>, <<20>>, <<100>>, <<101>>>>]_vars

\* the four rows, loaded with progress 50, 0, 100, 25 and sorted ascending by
\* progress
C23_ProgressSortedAscending ==
    /\ Len(_raw_data) = 4
    /\ [i \in 1..4 |-> _raw_data[i].rid] = <<0, 1, 2, 3>>
    /\ [i \in 1..4 |-> _raw_data[i].progress] = <<50, 0, 100, 25>>
    /\ _visible_rows = <<1, 3, 0, 2>>

\* x held inside lo..hi
ClampTo(x, lo, hi) == IF x < lo THEN lo ELSE IF x > hi THEN hi ELSE x

\* C24: for every viewport width W, height H and scroll offset Y, tiles of
\* 155 x 265 and N >= 1 visible rows, update_visible_items computes
\* columns_per_row = max(1, W div 155), start = clamp((Y div 265 - 2) *
\* columns_per_row, 0, N - 1) and end = clamp(((Y + H) div 265 + 1) *
\* columns_per_row - 1 + 2 * columns_per_row, 0, N - 1), so that
\* 0 <= start <= end <= N - 1
C24_WindowMatchesFormula ==
    [][(UpdateVisibleItemsInViewport /\ Len(_visible_rows) >= 1) =>
          LET N == Len(_visible_rows)
              columns_per_row == IF viewport_width \div 155 > 1
                                 THEN viewport_width \div 155 ELSE 1
              start_grid_row == scroll_y \div 265
              end_grid_row == (scroll_y + viewport_height) \div 265
          IN  /\ window'.columns_per_row = columns_per_row
              /\ window'.start_row =
                    ClampTo(start_grid_row * columns_per_row - 2 * columns_per_row, 0, N - 1)
              /\ window'.end_row =
                    ClampTo((end_grid_row + 1) * columns_per_row - 1 + 2 * columns_per_row,
                          0, N - 1)
              /\ 0 <= window'.start_row
              /\ window'.start_row <= window'.end_row
              /\ window'.end_row <= N - 1]_vars

\* C30: with a viewport 600 wide and 530 high scrolled to 310 and tiles of
\* 155 x 265, update_visible_items finds 3 columns per row and the grid rows
\* 1 to 2, and a base range from 3 to 8 before the buffer
C30_WindowExampleAsStated ==
    [][(/\ UpdateVisibleItemsInViewport
        /\ Len(_visible_rows) >= 9
        /\ viewport_width = 600 /\ viewport_height = 530 /\ scroll_y = 310) =>
          /\ window'.columns_per_row = 3
          /\ window'.start_grid_y = 1
          /\ window'.end_grid_y = 2
          /\ window'.base_start_row = 3
          /\ window'.base_end_row = 8]_vars

\* C30 (amended): with a viewport 600 wide and 530 high scrolled to 310 and
\* tiles of 155 x 265, update_visible_items finds 3 columns per row and the
\* grid rows 1 to 3 (840 div 265 = 3), a base range from 3 to 11 (to the last
\* row of a shorter model) before the buffer, and from it the window
\* 0 .. min(N - 1, 17)
C30_WindowExample ==
    [][(/\ UpdateVisibleItemsInViewport
        /\ Len(_visible_rows) >= 1
        /\ viewport_width = 600 /\ viewport_height = 530 /\ scroll_y = 310) =>
          LET N == Len(_visible_rows)
          IN  /\ window'.columns_per_row = 3
              /\ window'.start_grid_y = 1
              /\ window'.end_grid_y = 3
              /\ window'.base_start_row = 3
              /\ N >= 12 => window'.base_end_row = 11
              /\ N < 12 => window'.base_end_row = N - 1
              /\ window'.start_row = 0
              /\ window'.end_row = (IF N - 1 < 17 THEN N - 1 ELSE 17)]_vars

\* the example's viewport over twelve rows, its window computed
C30_ExampleComputed ==
    /\ viewport_width = 600 /\ viewport_height = 530 /\ scroll_y = 310
    /\ Len(_visible_rows) = 12
    /\ window.computed
    /\ window.rowCount = 12
    /\ <<window.start_grid_y, window.end_grid_y>> = <<1, 3>>
    /\ <<window.base_start_row, window.base_end_row>> = <<3, 11>>

\* C25: the worker thread of a tag fetch never calls into the table or the
\* store; every call on them is made by the UI thread
C25_CoreTouchedOnlyByUiThread ==
    \A call \in table_calls : call[1] = "ui"

\* the state of the timer named t
TimerOf(t) ==
    CASE t = "save_column_timer" -> save_column_timer
      [] t = "save_table_timer" -> save_table_timer
      [] t = "save_state_timer" -> save_state_timer

\* C26: each geometry-save timer is one single-shot timer that an event
\* starts or restarts, so after every event of a burst, the very first event
\* included, that timer has exactly one save pending
C26_EveryBurstHasASavePending ==
    \A t \in Timers : unsaved[t] > 0 => TimerOf(t) = "pending"

\* C27: after clear_filters on a store with live records neither the status,
\* the tag, the text nor the custom filter is active, and every live record
\* is visible
C27_ClearFiltersClearsEveryCategory ==
    [][(ClearFilters /\ Live # {}) =>
          /\ ~HasKey(_filters', "status")
          /\ ~HasKey(_filters', "tags")
          /\ ~_text_filter_active'
          /\ ~_custom_filter_active'
          /\ \A i \in Live' : i \in Range(_visible_rows')]_vars

\* C28: the counts the store reports partition the live records: the total
\* counts the records never removed, the hidden count the live records that
\* are not visible, and visible + hidden = total
C28_CountsPartitionLiveRecords ==
    /\ get_debug_info.visible_rows + get_debug_info.filtered_out = get_total_rows
    /\ get_total_rows = Cardinality(Live)
    /\ get_debug_info.total_rows = Cardinality(Live)
    /\ get_debug_info.filtered_out = Cardinality(Live \ Range(_visible_rows))

\* C29: acquire_widget for a row that is bound, nothing released in between,
\* returns the card the row already has, creates no card, leaves the bound map
\* and the free list as they are, and the card then shows the row data of
\* this latest call; this holds for a row bound by the grid and for a second
\* acquire_widget straight after a first
C29_AcquireOfBoundRowIsIdempotent ==
    \A row \in 0..(MaxListLen - 1), d1 \in InsertDicts, d2 \in InsertDicts :
        LET first == IF row \in ODom(widget_pool._in_use_widgets)
                     THEN [pool |-> widget_pool,
                           widget |-> OGet(widget_pool._in_use_widgets, row)]
                     ELSE acquire_widget(widget_pool, row, d1)
            second == acquire_widget(first.pool, row, d2)
        IN  first.widget # None =>
              /\ second.widget = first.widget
              /\ Len(second.pool.widgets) = Len(first.pool.widgets)
              /\ second.pool._in_use_widgets = first.pool._in_use_widgets
              /\ second.pool._available_widgets = first.pool._available_widgets
              /\ second.pool.widgets[second.widget].current_row = row
              /\ second.pool.widgets[second.widget].title = TitleText(d2.title)
              /\ second.pool.widgets[second.widget].status = StatusText(d2.read_status)
              /\ \A w \in 1..Len(first.pool.widgets) :
                    w # second.widget => second.pool.widgets[w] = first.pool.widgets[w]

\* a row is bound to a card that shows other data than the model now holds
\* for that row
C29_BoundCardIsStale ==
    \E row \in ODom(widget_pool._in_use_widgets) :
        /\ row < Len(_visible_rows)
        /\ widget_pool.widgets[OGet(widget_pool._in_use_widgets, row)].title #
              TitleText(get_row_data(_raw_data, _visible_rows, row).title)

\* C31: batch_update_rows returns True only if every visible row its map
\* names is in range and so was updated; with a named row out of range it
\* returns False
C31_BatchResultCoversEveryRow ==
    \A rows \in BatchRows, d \in InsertDicts :
        batch_update_rows_result([r \in rows |-> d]) => rows \subseteq VisibleRows

\* C32: once update_visible_items has run for a window and nothing is left
\* to run, every card the grid holds is bound to a visible row below the row
\* count and inside that window, the pool binds the same rows, and every card
\* shows the record now at its row, whatever removals, inserts, sorts and
\* filter changes came before
C32_BoundCardsShowCurrentRows ==
    [][\A win \in Windows :
          (/\ UpdateVisibleItems
           /\ LET g == update_visible_items(Grid(_visible_widgets, widget_pool),
                                            win[1], win[2], _raw_data, _visible_rows)
              IN  /\ _visible_widgets' = g._visible_widgets
                  /\ widget_pool' = g.pool) =>
             /\ \A row \in ODom(_visible_widgets') :
                   /\ row < Len(_visible_rows')
                   /\ row \in win[1]..win[2]
             /\ ODom(widget_pool'._in_use_widgets) = ODom(_visible_widgets')
             /\ CardsShowTheirRows(_visible_widgets', widget_pool',
                                   _raw_data', _visible_rows')]_vars

\* C33: when no rebuild is pending, a live record carries the duplicate
\* highlight exactly when at least two live records have its websign
C33_HighlightIffShared ==
    ~rebuild_pending =>
        \A i \in Live :
            (i \in _row_styles) <=> LiveCount(Raw(_raw_data, i).websign) >= 2
\* C34: a header click that takes a column from desc to none only clears the
\* sort indicator: the visible sequence and the stored records are, right
\* after the click, in the order they had right before it (stated for a model
\* without an active filter, where every stored record is visible)
C34_NoneKeepsOrder ==
    [][\A c \in SortColumns :
          (/\ OnHeaderClicked
           /\ on_header_clicked(c)
           /\ SortState(sort_states, c) = "desc"
           /\ ~_filter_active
           /\ Len(_visible_rows) = Len(_raw_data)) =>
             /\ sort_states'[c] = "none"
             /\ _visible_rows' = _visible_rows
             /\ _raw_data' = _raw_data]_vars

\* C35: while the column of the last sort request is in state asc or desc
\* and the visible rows are in that order, a rebuild of the visible rows by a
\* change or clear of the status filter leaves them in that order
C35_RebuildKeepsSortOrder ==
    [][\A c \in SortColumns :
          (/\ SetStatusFilter
           /\ current_sort_column = c
           /\ SortState(sort_states, c) \in {"asc", "desc"}
           /\ SortedOn(_raw_data, _visible_rows, c, SortState(sort_states, c) = "desc")) =>
             SortedOn(_raw_data', _visible_rows', c, SortState(sort_states, c) = "desc")]_vars

\* C36: for every size the viewport takes and every number of rows of the
\* model, the window update_visible_items computes, the two buffer grid rows
\* on each side included, holds fewer rows than the pool of the delegate
\* holds cards (50)
C36_WindowSmallerThanCapacity ==
    \A rowCount \in 1..ManyRows :
        LET w == update_visible_items_window(viewport_width, viewport_height, scroll_y,
                                             rowCount)
        IN  w.computed => w.end_row - w.start_row + 1 < pool_capacity

\* C37: update_row with a dict that names only some fields leaves every field
\* it does not name as it was in the addressed record, leaves every other
\* record as it was, and leaves the visible rows as they were
C37_UpdateKeepsUnnamedFields ==
    [][\A row \in VisibleRows, d \in EditDicts :
          (UpdateRow /\ update_row(row, d)) =>
             LET actual_row == _visible_rows[row + 1]
             IN  /\ _visible_rows' = _visible_rows
                 /\ \A i \in 0..(Len(_raw_data) - 1) :
                       i # actual_row => Raw(_raw_data', i) = Raw(_raw_data, i)
                 /\ \A k \in Range(COLUMNS) :
                       ~HasKey(d, k) =>
                          _tuple_to_dict(Raw(_raw_data', actual_row))[k]
                             = _tuple_to_dict(Raw(_raw_data, actual_row))[k]]_vars

\* C38: after clear_table has cleared the table, the duplicate index is empty
\* and no row is highlighted, so that only records inserted after the clear
\* can raise a duplicate prompt or a highlight
C38_ClearLeavesNothing ==
    [][(ClearTable /\ _raw_data # <<>> /\ _raw_data' = <<>>) =>
          /\ websign_tracker' = EmptyDict
          /\ _row_styles' = {}]_vars

\* C39: in every reachable state of the pool each card is either once on the
\* free list or bound to exactly one row, never both, so that the free cards
\* and the bound cards together are the cards the pool has created
C39_PoolPartition ==
    LET free == widget_pool._available_widgets
        bound == widget_pool._in_use_widgets
    IN  /\ NoRepeats(free)
        /\ Cardinality(ODom(bound)) = Len(bound)
        /\ Cardinality(BoundCards) = Len(bound)
        /\ FreeCards \cap BoundCards = {}
        /\ FreeCards \cup BoundCards = 1..Len(widget_pool.widgets)
        /\ Len(free) + Len(bound) = Len(widget_pool.widgets)

\* C39 witness: both cards were bound, and the card taken first is back on
\* the free list while the other is still bound
C39_CardRecycled ==
    /\ widget_pool._available_widgets = <<2>>
    /\ BoundCards = {1}
    /\ widget_pool.widgets[1].current_row # -1

====
